---- MODULE Spec2Model ----
(***************************************************************************)
(* Model of golf::PuttStats (cpp/src/putt_stats.cpp), the putting          *)
(* statistics state machine, and of the threads that use it: the           *)
(* orchestration thread calling update() and the HTTP handlers of          *)
(* StatsApi::run calling current(), history() and session().               *)
(*                                                                         *)
(* Numbers.  The code computes in float.  All inputs of the model are      *)
(* small integers chosen so that every float operation of update() is      *)
(* exact on them: velocities are axis-aligned (sqrt(v*v) = |v| and         *)
(* v/|v| is -1, 0 or 1) and the ball positions have pairwise integer       *)
(* distances (the two ends of a 3-4-5 triangle).  On these inputs integer  *)
(* arithmetic is what the float code computes.                             *)
(***************************************************************************)
EXTENDS Integers, Sequences, FiniteSets, TLC

\* ------------------------------------------------------------------------
\* Configuration and bounds
\* ------------------------------------------------------------------------

\* PuttStats::motion_threshold_ (px/s), as constructed in main.
motion_threshold == 5

\* PuttStats::stop_frames_required_; main passes 15, the model a small count.
stop_frames_required == 2

\* Number of update() calls in a run.
MaxCalls == 7

\* Ball positions fed to update(): 5 apart, 3 and 4 off the two axes.
Positions == {<<0, 0>>, <<3, 4>>}

\* Ball velocities fed to update(): speeds 0, 5 (= threshold), 6 and 8.
Velocities == {<<0, 0>>, <<5, 0>>, <<6, 0>>, <<0, 8>>}

\* Frame intervals fed to update().
Dts == {1, 2}

\* ------------------------------------------------------------------------
\* Data
\* ------------------------------------------------------------------------

IDLE == "IDLE"
IN_MOTION == "IN_MOTION"
STOPPED == "STOPPED"

\* enum class PuttState
PuttState == {IDLE, IN_MOTION, STOPPED}

\* A TrackedObject as update() reads it (valid, x, y, vx, vy).
Ball(valid, pos, vel) ==
  [valid |-> valid, x |-> pos[1], y |-> pos[2], vx |-> vel[1], vy |-> vel[2]]

\* The balls the model feeds: every valid ball over Positions x Velocities,
\* and invalid balls both at rest and carrying a stale position and
\* velocity (update() must not read them).
Balls ==
  {Ball(TRUE, p, v) : p \in Positions, v \in Velocities}
    \cup {Ball(FALSE, <<0, 0>>, <<0, 0>>), Ball(FALSE, <<3, 4>>, <<0, 8>>)}

\* struct PuttData with its default member initialisers.
PuttData0 ==
  [putt_number |-> 0, state |-> IDLE,
   launch_speed |-> 0, current_speed |-> 0, peak_speed |-> 0,
   total_distance |-> 0, break_distance |-> 0, time_in_motion |-> 0,
   start_x |-> 0, start_y |-> 0, final_x |-> 0, final_y |-> 0]

\* PuttStats::PuttStats(motion_threshold, stop_frames): the private members
\* of a freshly constructed PuttStats.
PuttStats(mt, sf) ==
  [motion_threshold_ |-> mt, stop_frames_required_ |-> sf,
   current |-> PuttData0, history |-> <<>>,
   frames_below_threshold |-> 0,
   prev_x |-> 0, prev_y |-> 0, has_prev |-> FALSE,
   dir_x |-> 0, dir_y |-> 0, has_direction |-> FALSE]

\* The PuttStats of the runs: PuttStats(motion_threshold, stop_frames).
PuttStats0 == PuttStats(motion_threshold, stop_frames_required)

\* ------------------------------------------------------------------------
\* Arithmetic helpers
\* ------------------------------------------------------------------------

\* std::abs
Abs(a) == IF a < 0 THEN -a ELSE a

\* std::sqrt on a non-negative number: the root, exact on perfect squares
\* (all the model feeds it), rounded down otherwise.
Sqrt(n) == CHOOSE r \in 0..n : r * r <= n /\ (r + 1) * (r + 1) > n

\* a / b for the unit launch direction; exact when b divides a, as for the
\* axis-aligned velocities of the model.
Quot(a, b) == IF a >= 0 THEN a \div b ELSE -((-a) \div b)

\* std::sqrt(a*a + b*b).  Along an axis (b = 0 or a = 0) the square and
\* its root are exact and the result is |a| or |b|, which is taken without
\* forming the square.
Norm(a, b) ==
  IF b = 0 THEN Abs(a)
  ELSE IF a = 0 THEN Abs(b)
  ELSE Sqrt(a * a + b * b)

\* speed = sqrt(vx*vx + vy*vy)
Speed(ball) == Norm(ball.vx, ball.vy)

\* ------------------------------------------------------------------------
\* PuttStats::update, statement by statement
\* ------------------------------------------------------------------------

\* Mutant: the early return forgets has_prev_ = false.
InvalidBallKeepsPrev(p) == p

\* Mutant: an invalid ball also restarts the count of slow frames.
InvalidBallResetsCount(p) ==
  [p EXCEPT !.has_prev = FALSE, !.frames_below_threshold = 0]

\* if (!ball.valid) { has_prev_ = false; return; }
InvalidBall(p) == [p EXCEPT !.has_prev = FALSE]

\* current_.current_speed = speed;
SetCurrentSpeed(p, speed) == [p EXCEPT !.current.current_speed = speed]

\* Break: perpendicular distance of the ball from the launch line.
Cross(p, ball) ==
  Abs((ball.x - p.current.start_x) * p.dir_y
        - (ball.y - p.current.start_y) * p.dir_x)

\* Mutant: the break follows the latest deviation (net drift) instead of
\* the largest one.
BreakUpdateLatest(p, ball) ==
  IF p.has_direction THEN Cross(p, ball) ELSE p.current.break_distance

\* The running maximum of the break (if (has_direction_) { ... }).
BreakUpdate(p, ball) ==
  IF p.has_direction /\ Cross(p, ball) > p.current.break_distance
    THEN Cross(p, ball)
    ELSE p.current.break_distance

\* Frame-to-frame distance from the remembered previous position.
FrameDist(p, ball) == Norm(ball.x - p.prev_x, ball.y - p.prev_y)

\* Mutant: the accumulation block without its test of the state.
AccumulatesAnyState(p) == p.has_prev

\* The two nested tests of the accumulation block:
\* if (has_prev_) { ... if (current_.state == PuttState::IN_MOTION) { ... } }
Accumulates(p) == p.has_prev /\ p.current.state = IN_MOTION

\* Mutant: the peak follows the latest speed.
PeakLatest(peak, speed) == speed

\* if (speed > current_.peak_speed) current_.peak_speed = speed;
PeakUpdate(peak, speed) == IF speed > peak THEN speed ELSE peak

\* The accumulation block.
Accumulate(p, ball, dt, speed) ==
  IF Accumulates(p)
    THEN [p EXCEPT
            !.current.total_distance = @ + FrameDist(p, ball),
            !.current.time_in_motion = @ + dt,
            !.current.peak_speed = PeakUpdate(@, speed),
            !.current.break_distance = BreakUpdate(p, ball),
            !.current.final_x = ball.x,
            !.current.final_y = ball.y]
    ELSE p

\* prev_x_ = ball.x; prev_y_ = ball.y; has_prev_ = true;
RememberPrev(p, ball) ==
  [p EXCEPT !.prev_x = ball.x, !.prev_y = ball.y, !.has_prev = TRUE]

\* The guard of the IDLE and of the STOPPED case.
StartsMoving(p, speed) == speed > p.motion_threshold_

\* The guard of the IN_MOTION case.
IsSlow(p, speed) == speed < p.motion_threshold_

\* current_.state = PuttState::IN_MOTION;
MarkInMotion(p) == [p EXCEPT !.current.state = IN_MOTION]

\* Mutant: every new putt is numbered 1.
NextPuttNumberRestarts(p) == 1

\* Mutant: the new putt is numbered without the + 1.
NextPuttNumberOffByOne(p) == Len(p.history)

\* The putt number given to a new putt.
NextPuttNumber(p) == Len(p.history) + 1

\* Mutant: the new putt's fields are set, but break_distance is not reset.
ResetPuttKeepsBreak(p, ball, speed) ==
  [p EXCEPT
     !.current.putt_number = NextPuttNumber(p),
     !.current.launch_speed = speed,
     !.current.peak_speed = speed,
     !.current.total_distance = 0,
     !.current.time_in_motion = 0,
     !.current.start_x = ball.x,
     !.current.start_y = ball.y,
     !.current.final_x = ball.x,
     !.current.final_y = ball.y]

\* The fields of current_ set when a putt begins.
ResetPutt(p, ball, speed) ==
  [p EXCEPT
     !.current.putt_number = NextPuttNumber(p),
     !.current.launch_speed = speed,
     !.current.peak_speed = speed,
     !.current.total_distance = 0,
     !.current.break_distance = 0,
     !.current.time_in_motion = 0,
     !.current.start_x = ball.x,
     !.current.start_y = ball.y,
     !.current.final_x = ball.x,
     !.current.final_y = ball.y]

\* The rest of the IDLE / STOPPED case body: the new putt's fields, the
\* launch direction (captured if vmag > 1e-6f) and the below-threshold
\* counter.
BeginPutt(p, ball, speed) ==
  LET vmag == Speed(ball) IN
  [ResetPutt(p, ball, speed) EXCEPT
     !.dir_x = IF vmag > 0 THEN Quot(ball.vx, vmag) ELSE @,
     !.dir_y = IF vmag > 0 THEN Quot(ball.vy, vmag) ELSE @,
     !.has_direction = (vmag > 0),
     !.frames_below_threshold = 0]

\* Mutant: a frame at or above the threshold leaves the counter alone.
CountSlowNoReset(p, speed) ==
  [p EXCEPT !.frames_below_threshold = IF IsSlow(p, speed) THEN @ + 1 ELSE @]

\* The IN_MOTION case up to the test of the counter:
\* frames_below_threshold_++ on a slow frame, = 0 otherwise.
CountSlow(p, speed) ==
  [p EXCEPT !.frames_below_threshold = IF IsSlow(p, speed) THEN @ + 1 ELSE 0]

\* if (frames_below_threshold_ >= stop_frames_required_)
StopReached(p, speed) ==
  IsSlow(p, speed) /\ p.frames_below_threshold >= p.stop_frames_required_

\* Mutant: the putt is put back to IDLE when it stops.
MarkStoppedAsIdle(p) == [p EXCEPT !.current.state = IDLE]

\* current_.state = PuttState::STOPPED;
MarkStopped(p) == [p EXCEPT !.current.state = STOPPED]

\* Mutant: the record is inserted at the front of history_.
finalize_putt_front(p) == [p EXCEPT !.history = <<p.current>> \o @]

\* PuttStats::finalize_putt: history_.push_back(current_)
finalize_putt(p) == [p EXCEPT !.history = Append(@, p.current)]

\* switch (current_.state) { ... }
Transition(p, ball, speed) ==
  CASE p.current.state = IDLE ->
         IF StartsMoving(p, speed) THEN BeginPutt(MarkInMotion(p), ball, speed)
         ELSE p
    [] p.current.state = IN_MOTION ->
         LET q == CountSlow(p, speed) IN
         IF StopReached(q, speed) THEN finalize_putt(MarkStopped(q)) ELSE q
    [] p.current.state = STOPPED ->
         IF StartsMoving(p, speed) THEN BeginPutt(MarkInMotion(p), ball, speed)
         ELSE p

\* PuttStats::update(ball, dt) as a whole, under the lock.
update(p, ball, dt) ==
  IF ~ball.valid THEN InvalidBall(p)
  ELSE LET speed == Speed(ball) IN
       Transition(
         RememberPrev(Accumulate(SetCurrentSpeed(p, speed), ball, dt, speed),
                      ball),
         ball, speed)

\* ------------------------------------------------------------------------
\* The read operations
\* ------------------------------------------------------------------------

\* PuttData PuttStats::current() const: a copy of current_.
current(p) == p.current

\* std::vector<PuttData> PuttStats::history() const: a copy of history_.
history(p) == p.history

RECURSIVE SumField(_, _)
\* The accumulation loop of session() for one field (s.avg_x += p.x).
SumField(h, f) == IF h = <<>> THEN 0 ELSE SumField(Tail(h), f) + Head(h)[f]

RECURSIVE Gcd(_, _)
Gcd(a, b) == IF b = 0 THEN a ELSE Gcd(b, a % b)

\* Mutant: the sums are returned without the division by n.
RatioNoDivide(a, n) == <<a, 1>>

\* s.avg_x /= n: the quotient, kept exact as a fraction in lowest terms
\* <<numerator, denominator>> (0 is <<0, 1>>).
Ratio(a, n) == LET g == Gcd(a, n) IN <<a \div g, n \div g>>

\* PuttStats::session()
session(p) ==
  LET n == Len(p.history) IN
  IF n = 0
    THEN [total_putts |-> 0, avg_launch_speed |-> <<0, 1>>,
          avg_distance |-> <<0, 1>>, avg_break |-> <<0, 1>>,
          avg_time |-> <<0, 1>>]
    ELSE [total_putts |-> n,
          avg_launch_speed |-> Ratio(SumField(p.history, "launch_speed"), n),
          avg_distance |-> Ratio(SumField(p.history, "total_distance"), n),
          avg_break |-> Ratio(SumField(p.history, "break_distance"), n),
          avg_time |-> Ratio(SumField(p.history, "time_in_motion"), n)]

\* The three endpoints of StatsApi::run.
Ops == {"current", "history", "session"}

\* What the operation op returns when it runs on the members p.
View(op, p) ==
  CASE op = "current" -> current(p)
    [] op = "history" -> history(p)
    [] op = "session" -> session(p)

\* ------------------------------------------------------------------------
\* Tracker (cpp/src/tracker.cpp)
\*
\* The track's position and velocity are kept as exact fractions
\* <<numerator, denominator>> in lowest terms with a positive denominator;
\* the rounding of the float arithmetic is not modelled (0.6f is taken as
\* 3/5, 0.9f as 9/10).  Confidences are in hundredths (0..100); they are
\* only compared and copied.
\* ------------------------------------------------------------------------

\* Tracker::alpha_ (main passes 0.6f) and Tracker::max_lost_ (main passes 15).
alpha == <<3, 5>>
max_lost == 1

\* Number of Tracker::update calls in a run.
MaxTrackCalls == 5

RNorm(n, d) ==
  LET g == Gcd(Abs(n), Abs(d))
      sg == IF d < 0 THEN -1 ELSE 1
  IN IF n = 0 THEN <<0, 1>> ELSE <<sg * (n \div g), sg * (d \div g)>>
RInt(n) == <<n, 1>>
RAdd(a, b) ==
  LET g == Gcd(a[2], b[2])
  IN RNorm(a[1] * (b[2] \div g) + b[1] * (a[2] \div g),
           (a[2] \div g) * b[2])
RNeg(a) == <<-a[1], a[2]>>
RSub(a, b) == RAdd(a, RNeg(b))
RMul(a, b) ==
  LET p == RNorm(a[1], b[2])
      q == RNorm(b[1], a[2])
  IN RNorm(p[1] * q[1], p[2] * q[2])
RDiv(a, b) == RMul(a, <<b[2], b[1]>>)
RLess(a, b) == a[1] * b[2] < b[1] * a[2]
RZero == <<0, 1>>
ROne == <<1, 1>>

\* The velocity decay factor of a coasting track (0.9f).
Decay == <<9, 10>>

\* struct Detection: a class id, a confidence and a bounding box.
Det(class_id, confidence, x1, y1, x2, y2) ==
  [class_id |-> class_id, confidence |-> confidence,
   x1 |-> x1, y1 |-> y1, x2 |-> x2, y2 |-> y2]

\* Detection::cx, Detection::cy
cx(d) == RMul(RInt(d.x1 + d.x2), <<1, 2>>)
cy(d) == RMul(RInt(d.y1 + d.y2), <<1, 2>>)

\* const Detection* == nullptr
NoDet == [class_id |-> -1]

\* struct TrackedObject with its default member initialisers, and the
\* class id the Tracker constructor gives it.
TrackedObject0(class_id) ==
  [class_id |-> class_id, x |-> RZero, y |-> RZero,
   vx |-> RZero, vy |-> RZero,
   confidence |-> 0, frames_since_seen |-> 0, valid |-> FALSE]

\* Tracker::Tracker(alpha, max_lost)
Tracker(a, ml) ==
  [alpha_ |-> a, max_lost_ |-> ml,
   ball_ |-> TrackedObject0(0), putter_ |-> TrackedObject0(1)]

\* Mutant: a detection as confident as the best so far replaces it.
BeatsOrEquals(confidence, best_conf) == confidence >= best_conf

\* d.confidence > best_conf
Beats(confidence, best_conf) == confidence > best_conf

RECURSIVE Scan(_, _, _)
\* The loop of Tracker::update over detections[i..]: b holds best_ball,
\* best_putter (indices into the list, 0 for nullptr) and their
\* confidences.
Scan(dets, i, b) ==
  IF i > Len(dets) THEN b
  ELSE LET d == dets[i] IN
       Scan(dets, i + 1,
            IF d.class_id = 0 /\ Beats(d.confidence, b.ball_conf)
              THEN [b EXCEPT !.ball = i, !.ball_conf = d.confidence]
            ELSE IF d.class_id = 1 /\ Beats(d.confidence, b.putter_conf)
              THEN [b EXCEPT !.putter = i, !.putter_conf = d.confidence]
            ELSE b)

\* The best detections of a frame: best_ball and best_putter after the loop.
Best(dets) ==
  LET b == Scan(dets, 1, [ball |-> 0, ball_conf |-> 0,
                          putter |-> 0, putter_conf |-> 0])
  IN [ball |-> IF b.ball = 0 THEN NoDet ELSE dets[b.ball],
      putter |-> IF b.putter = 0 THEN NoDet ELSE dets[b.putter]]

\* The smallest dt (in seconds) the velocity estimate divides by: 1e-6.
Epsilon == <<1, 1000000>>

\* Mutant: a first detection is smoothed like any other.
IsFirstSightNever(track) == FALSE

\* if (!track.valid): the detection is the first for this track.
IsFirstSight(track) == ~track.valid

\* First detection - snap to position.
Snap(track, det) ==
  [track EXCEPT !.x = cx(det), !.y = cy(det), !.vx = RZero, !.vy = RZero]

\* alpha_ * a + (1.f - alpha_) * b
Ema(t, a, b) == RAdd(RMul(t.alpha_, a), RMul(RSub(ROne, t.alpha_), b))

\* Mutant: the velocity is estimated at the epsilon too.
DtUsableAtEpsilon(dt) == ~RLess(dt, Epsilon)

\* if (dt > 1e-6): the velocity is estimated.
DtUsable(dt) == RLess(Epsilon, dt)

\* EMA position update and velocity estimate.
Smooth(t, track, det, dt) ==
  LET x2 == Ema(t, cx(det), track.x)
      y2 == Ema(t, cy(det), track.y)
  IN [track EXCEPT
        !.x = x2,
        !.y = y2,
        !.vx = IF DtUsable(dt)
                 THEN Ema(t, RDiv(RSub(x2, track.x), dt), @)
                 ELSE @,
        !.vy = IF DtUsable(dt)
                 THEN Ema(t, RDiv(RSub(y2, track.y), dt), @)
                 ELSE @]

\* Mutant: the track is declared lost one frame early.
IsLostAtThreshold(t, fss) == fss >= t.max_lost_

\* Mutant: the track is declared lost one frame late.
IsLostLate(t, fss) == fss > t.max_lost_ + 1

\* if (track.frames_since_seen > max_lost_)
IsLost(t, fss) == fss > t.max_lost_

\* Mutant: a lost track keeps its velocity.
LoseKeepsVelocity(track) == [track EXCEPT !.valid = FALSE]

\* track.valid = false; track.vx = 0.f; track.vy = 0.f;
Lose(track) == [track EXCEPT !.valid = FALSE, !.vx = RZero, !.vy = RZero]

\* Coast using last velocity; decay velocity.
Coast(track, dt) ==
  [track EXCEPT
     !.x = RAdd(@, RMul(track.vx, dt)),
     !.y = RAdd(@, RMul(track.vy, dt)),
     !.vx = RMul(@, Decay),
     !.vy = RMul(@, Decay)]

\* Tracker::update_track(track, det, dt)
update_track(t, track, det, dt) ==
  IF det # NoDet
    THEN [(IF IsFirstSight(track) THEN Snap(track, det)
           ELSE Smooth(t, track, det, dt))
            EXCEPT !.confidence = det.confidence,
                   !.frames_since_seen = 0,
                   !.valid = TRUE]
    ELSE LET fss == track.frames_since_seen + 1
             seen == [track EXCEPT !.frames_since_seen = fss]
         IN IF IsLost(t, fss)
              THEN Lose(seen)
            ELSE IF track.valid THEN Coast(seen, dt)
            ELSE seen

\* Tracker::update(detections, dt)
tracker_update(t, dets, dt) ==
  LET best == Best(dets) IN
  [t EXCEPT !.ball_ = update_track(t, @, best.ball, dt),
            !.putter_ = update_track(t, @, best.putter, dt)]

\* The detections the model feeds.  Ball boxes centred at (0,0) and
\* (16,0) with confidences 90, 50 and 0, a putter box centred at (8,8), and
\* a box of a class the tracker does not know.
BallA == Det(0, 90, -2, -2, 2, 2)
BallB == Det(0, 50, 14, -2, 18, 2)
BallB90 == Det(0, 90, 14, -2, 18, 2)
BallZero == Det(0, 0, 14, -2, 18, 2)
PutterC == Det(1, 80, 4, 4, 12, 12)
Other == Det(2, 95, 30, 30, 34, 34)

\* The detection lists of a frame.
DetLists ==
  {<<>>, <<BallA>>, <<BallB>>, <<BallB, BallA>>, <<BallA, BallB90>>,
   <<PutterC>>, <<BallB90, PutterC>>, <<Other>>, <<BallZero>>}

\* Frame intervals fed to Tracker::update (0: no time has passed).
TrackDts == {RZero, RInt(1), RInt(2)}

\* ---- The track position in IEEE-754 binary32 ----

\* TrackedObject::x and y, Detection's box and alpha_ are floats, and the
\* position update rounds after every operation, or, in a build that
\* contracts the EMA expression, once for a product and the sum together.  A finite float that is
\* not negative is <<m, e>>, its value m * 2^e, with 2^23 <= m < 2^24, or
\* Zero32.  Pixel coordinates and smoothing factors are far from the
\* subnormal and overflow ranges, which are left out.
Zero32 == <<0, 0>>

\* The float of an IEEE-754 bit pattern (sign bit clear, normal number).
Float32(bits) == <<2^23 + (bits % 2^23), (bits \div 2^23) - 150>>

\* 1.f and 0.5f
One32 == Float32(1065353216)
Half32 == Float32(1056964608)

\* The float nearest to (m + num/den) * 2^e, ties to even, for
\* 2^23 <= m < 2^24 and 0 <= num < den.
Nearest(m, num, den, e) ==
  LET up == 2 * num > den \/ (2 * num = den /\ (m % 2) = 1)
      m2 == IF up THEN m + 1 ELSE m
  IN IF m2 = 2^24 THEN <<2^23, e + 1>> ELSE <<m2, e>>

\* The float nearest to n * 2^e, for an integer 0 <= n < 2^30.
RECURSIVE Round32(_, _)
Round32(n, e) ==
  IF n = 0 THEN Zero32
  ELSE IF n < 2^23 THEN Round32(2 * n, e - 1)
  ELSE IF n < 2^24 THEN <<n, e>>
  ELSE LET k == CHOOSE j \in 1..6 : n < 2^(24 + j) /\ n >= 2^(23 + j)
       IN Nearest(n \div (2^k), n % (2^k), 2^k, e + k)

\* a + b in float arithmetic.
Add32(a, b) ==
  IF a = Zero32 THEN b
  ELSE IF b = Zero32 THEN a
  ELSE LET hi == IF a[2] >= b[2] THEN a ELSE b
           lo == IF a[2] >= b[2] THEN b ELSE a
           d == hi[2] - lo[2]
       IN IF d > 25 THEN hi
          ELSE LET s == hi[1] + (lo[1] \div (2^d))
                   r == lo[1] % (2^d)
               IN IF s < 2^24
                    THEN Nearest(s, r, 2^d, hi[2])
                    ELSE Nearest(s \div 2, ((s % 2) * (2^d)) + r, 2^(d + 1),
                                 hi[2] + 1)

\* a - b in float arithmetic, for a >= b whose exponents differ by at most
\* 6 (1.f - alpha_ for alpha_ in [2^-6, 1]).
Sub32(a, b) ==
  IF b = Zero32 THEN a
  ELSE Round32((a[1] * (2^(a[2] - b[2]))) - b[1], b[2])

\* a * b in float arithmetic: the 48-bit product of the two significands,
\* held as hi * 2^24 + lo, rounded to 24 bits.
Mul32(a, b) ==
  IF a = Zero32 \/ b = Zero32 THEN Zero32
  ELSE LET ah == a[1] \div 4096
           al == a[1] % 4096
           bh == b[1] \div 4096
           bl == b[1] % 4096
           mid == (ah * bl) + (al * bh)
           low == ((mid % 4096) * 4096) + (al * bl)
           lo == low % (2^24)
           hi == (ah * bh) + (mid \div 4096) + (low \div (2^24))
           e == a[2] + b[2]
       IN IF hi >= 2^23
            THEN Nearest(hi, lo, 2^24, e + 24)
            ELSE Nearest((2 * hi) + (lo \div (2^23)), lo % (2^23), 2^23, e + 23)

\* a <= b
Leq32(a, b) ==
  \/ a = Zero32
  \/ /\ b # Zero32
     /\ a[2] < b[2] \/ (a[2] = b[2] /\ a[1] <= b[1])

\* A detection's box in floats.
Det32(x1, y1, x2, y2) == [x1 |-> x1, y1 |-> y1, x2 |-> x2, y2 |-> y2]
NoDet32 == Det32(Zero32, Zero32, Zero32, Zero32)

\* float cx() const { return (x1 + x2) * 0.5f; } and cy()
cx32(d) == Mul32(Add32(d.x1, d.x2), Half32)
cy32(d) == Mul32(Add32(d.y1, d.y2), Half32)

\* The ball track of a Tracker built with smoothing factor a: its
\* position and validity (the velocity and the confidence have no part in
\* the position of a track that is detected on every frame).
Track32(a) == [alpha_ |-> a, x |-> Zero32, y |-> Zero32, valid |-> FALSE]

\* The float nearest to (hi * 2^24 + lo) * 2^e, ties to even, for
\* 2^22 <= hi < 2^30 and 0 <= lo < 2^24.
RoundWide32(hi, lo, e) ==
  IF hi < 2^23
    THEN Nearest((2 * hi) + (lo \div (2^23)), lo % (2^23), 2^23, e + 23)
  ELSE IF hi < 2^24 THEN Nearest(hi, lo, 2^24, e + 24)
  ELSE LET j == CHOOSE i \in 1..6 : hi < 2^(24 + i) /\ hi >= 2^(23 + i)
           m == hi \div (2^j)
           r == hi % (2^j)
           half == 2^(j - 1)
           num == IF r > half \/ (r = half /\ lo > 0) THEN 3
                  ELSE IF r = half THEN 2 ELSE 0
       IN Nearest(m, num, 4, e + 24 + j)

\* std::fma(a, b, c) in float: a * b + c with the one rounding of a fused
\* multiply-add.  The 48-bit product is held as hi * 2^24 + lo and c is
\* added to it unrounded; c lies within a factor 2^5 above and 2^24 below
\* the product's unit 2^24 (the two terms of the EMA of pixel coordinates
\* are of the same order).
Fma32(a, b, c) ==
  IF a = Zero32 \/ b = Zero32 THEN c
  ELSE IF c = Zero32 THEN Mul32(a, b)
  ELSE LET ah == a[1] \div 4096
           al == a[1] % 4096
           bh == b[1] \div 4096
           bl == b[1] % 4096
           mid == (ah * bl) + (al * bh)
           low == ((mid % 4096) * 4096) + (al * bl)
           lo == low % (2^24)
           hi == (ah * bh) + (mid \div 4096) + (low \div (2^24))
           e == a[2] + b[2]
           k == c[2] - e - 24
       IN IF k >= 0
            THEN RoundWide32(hi + (c[1] * (2^k)), lo, e)
            ELSE LET lo2 == lo + ((c[1] % (2^(-k))) * (2^(24 + k)))
                 IN RoundWide32(hi + (c[1] \div (2^(-k))) + (lo2 \div (2^24)),
                                lo2 % (2^24), e)

\* What the build makes of a * b + c * d (the C++ standard lets the
\* compiler contract the expression): "none" rounds both products and the
\* sum (g++ without FMA instructions, or with -ffp-contract=off); "fused"
\* rounds c * d and then computes a * b plus it in one multiply-add (g++
\* with -mfma or -march=native on a machine with FMA, where
\* -ffp-contract=fast is the default).
Contractions == {"none", "fused"}

\* a * b + c * d in float, as the build computes it.
MulAdd32(build, a, b, c, d) ==
  IF build = "fused" THEN Fma32(a, b, Mul32(c, d))
  ELSE Add32(Mul32(a, b), Mul32(c, d))

\* alpha_ * a + (1.f - alpha_) * b
Ema32(build, t, a, b) ==
  MulAdd32(build, t.alpha_, a, Sub32(One32, t.alpha_), b)

\* update_track for a detection: the first detection snaps the position,
\* a later one moves it by the EMA.
update_track32(build, t, det) ==
  IF ~t.valid
    THEN [t EXCEPT !.x = cx32(det), !.y = cy32(det), !.valid = TRUE]
    ELSE [t EXCEPT !.x = Ema32(build, t, cx32(det), @),
                   !.y = Ema32(build, t, cy32(det), @)]

\* The smoothing factor main gives its Tracker: 0.6f.
alpha32 == Float32(1058642330)

\* Smoothing factors in (0,1]: 0.4f, 0.6f and 1.f.
Alphas32 == {Float32(1053609165), alpha32, One32}

\* x1..y2 of the boxes fed: 2, 4, 6, 8, 10, 12.5, 13, 16.5, 11.8f, 15.8f.
Box2 == Det32(Float32(1073741824), Float32(1073741824),
              Float32(1086324736), Float32(1086324736))
Box14 == Det32(Float32(1095237632), Float32(1092616192),
               Float32(1099169792), Float32(1095761920))
Box13 == Det32(Float32(1094503629), Float32(1082130432),
               Float32(1098697933), Float32(1090519040))
Boxes32 == {Box2, Box14, Box13}

\* Number of updates of the track held in floats.
MaxEmaCalls == 4

\* What a reader has obtained before it has called anything.
NoneGot == [history |-> <<>>, earlier |-> <<>>, total_putts |-> 0]

\* ------------------------------------------------------------------------
\* State
\* ------------------------------------------------------------------------

\* The threads: the orchestration thread and the HTTP handler threads.
Updater == "upd"
Readers == {"r1", "r2"}
NoThread == "none"

\* The handlers' local variables before anything has been read into them.
NoRet ==
  [current |-> PuttData0, history |-> <<>>, session |-> session(PuttStats0)]

\* The local variable (data, hist or s) of the handler of operation op
\* after it has called op on the PuttStats p.
Returned(op, p) == [NoRet EXCEPT ![op] = View(op, p)]

\* Number of update() calls in a run with concurrent readers.
MaxConcCalls == 4

\* The balls and frame intervals fed to update() in runs with concurrent
\* readers: at rest and moving, at both positions, and an invalid ball.
ConcBalls ==
  {Ball(TRUE, p, v) : p \in Positions, v \in {<<0, 0>>, <<6, 0>>}}
    \cup {Ball(FALSE, <<3, 4>>, <<0, 8>>)}
ConcDts == {1}

VARIABLES
  ps,         \* the PuttStats object (its members, guarded by mu_)
  arg,        \* the arguments of the latest update() call
  calls,      \* number of update() calls made
  mu,         \* owner of PuttStats::mu_, or NoThread
  pcU,        \* where the orchestration thread is inside update()
  pcR,        \* where each reader thread is inside its read operation
  opR,        \* the read operation each reader thread is running
  ret,        \* the value a reader's operation is returning
  committed,  \* ps as it stood when the latest update() call completed
  slow_run,   \* observer: length of the latest run of consecutive
              \* valid-ball update() calls with speed < motion_threshold
  snap,       \* the PuttData the orchestration thread got from current()
              \* for sender.send
  trk,        \* the Tracker object
  targ,       \* the arguments of the latest Tracker::update call
  tcalls,     \* number of Tracker::update calls made
  tprev,      \* observer: the Tracker as it was before the latest call
  mpc,        \* where main is
  running_,   \* StatsApi::running_
  srv,        \* where the server thread (StatsApi::run) is
  sock_open,  \* UnrealSender: sock_fd_ >= 0
  frame_count, \* main's frame_count
  nread,      \* number of frames pipeline.read has delivered
  sends,      \* number of sender.send calls made
  failed,     \* observer: the setup step that failed last
  frame,      \* observer: what happened on the latest frame read
  cpc,        \* whether the objects were built from given parameters
  ftrk,       \* a Tracker's ball track with its numbers in binary32
  fdet,       \* the detection of the latest update of that track
  fprev,      \* observer: that track as it was before the latest update
  fcalls,     \* number of updates of that track
  fbuild,     \* how the build computes the EMA expression (Contractions)
  got,        \* observer: what reader r1's latest history() and session()
              \* returned
  show_gui    \* Config::show_gui

\* The Tracker and its caller.
tvars == <<trk, targ, tcalls, tprev>>

\* The latest frame before any was read.
NoFrame == [infer |-> "none", sent |-> "none", key |-> "none"]

\* main, the server thread and the sender.
mvars ==
  <<mpc, running_, srv, sock_open, frame_count, nread, sends, failed, frame>>

\* The construction of Tracker and PuttStats from given parameters.
cvars == <<cpc>>

\* A track held in binary32, and what one reader has obtained so far.
fvars == <<ftrk, fdet, fprev, fcalls, fbuild>>
apart == <<fvars, got, show_gui>>

beyond == <<tvars, mvars, cvars, apart>>

\* The variables the PuttStats operations and the readers leave alone.
elsewhere == <<snap, beyond>>

vars ==
  <<ps, arg, calls, mu, pcU, pcR, opR, ret, committed, slow_run, snap,
    beyond>>

NoArg == [ball |-> Ball(FALSE, <<0, 0>>, <<0, 0>>), dt |-> 0]

Init ==
  /\ ps = PuttStats0
  /\ arg = NoArg
  /\ calls = 0
  /\ mu = NoThread
  /\ pcU = "idle"
  /\ pcR = [r \in Readers |-> "idle"]
  /\ opR = [r \in Readers |-> "current"]
  /\ ret = [r \in Readers |-> NoRet]
  /\ committed = PuttStats0
  /\ slow_run = 0
  /\ snap = PuttData0
  /\ trk = Tracker(alpha, max_lost)
  /\ targ = [dets |-> <<>>, dt |-> RZero]
  /\ tcalls = 0
  /\ tprev = Tracker(alpha, max_lost)
  /\ mpc = "args"
  /\ running_ = FALSE
  /\ srv = "none"
  /\ sock_open = FALSE
  /\ frame_count = 0
  /\ nread = 0
  /\ sends = 0
  /\ failed = "none"
  /\ frame = NoFrame
  /\ cpc = "default"
  /\ ftrk = Track32(alpha32)
  /\ fdet = NoDet32
  /\ fprev = Track32(alpha32)
  /\ fcalls = 0
  /\ fbuild = "none"
  /\ got = NoneGot
  /\ show_gui = TRUE

\* The observer's count after a call with this ball: an invalid ball is no
\* part of the run, a slow valid ball extends it, any other valid ball
\* ends it.
SlowRunAfter(p, run, ball) ==
  IF ~ball.valid THEN run
  ELSE IF IsSlow(p, Speed(ball)) THEN run + 1 ELSE 0

\* ---- update() as one step (single-threaded use) ----

\* One whole call of update(ball, dt) by the orchestration thread.
Update(ball, dt) ==
  /\ calls < MaxCalls
  /\ ps' = update(ps, ball, dt)
  /\ committed' = ps'
  /\ arg' = [ball |-> ball, dt |-> dt]
  /\ calls' = calls + 1
  /\ slow_run' = SlowRunAfter(ps, slow_run, ball)
  /\ UNCHANGED <<mu, pcU, pcR, opR, ret>>
  /\ UNCHANGED elsewhere

Next == \E ball \in Balls, dt \in Dts : Update(ball, dt)

Spec == Init /\ [][Next]_vars

\* ---- update() and the readers, statement by statement ----

\* Mutant: the operation runs without taking mu_.
CanLockAlways(m) == TRUE

\* std::lock_guard<std::mutex> lock(mu_): the constructor returns once the
\* mutex is free.
CanLock(m) == m = NoThread

\* The orchestration thread calls update(ball, dt).
U_CallUpTo(ball, dt, max) ==
  /\ pcU = "idle"
  /\ calls < max
  /\ arg' = [ball |-> ball, dt |-> dt]
  /\ calls' = calls + 1
  /\ pcU' = "lock"
  /\ slow_run' = SlowRunAfter(ps, slow_run, ball)
  /\ UNCHANGED <<ps, mu, pcR, opR, ret, committed>>
  /\ UNCHANGED elsewhere

U_Call(ball, dt) == U_CallUpTo(ball, dt, MaxConcCalls)

U_Lock ==
  /\ pcU = "lock"
  /\ CanLock(mu)
  /\ mu' = Updater
  /\ pcU' = "check"
  /\ UNCHANGED <<ps, arg, calls, pcR, opR, ret, committed, slow_run>>
  /\ UNCHANGED elsewhere

\* The validity test, and current_.current_speed = speed.
U_Check ==
  /\ pcU = "check"
  /\ IF ~arg.ball.valid
       THEN ps' = InvalidBall(ps) /\ pcU' = "unlock"
       ELSE ps' = SetCurrentSpeed(ps, Speed(arg.ball)) /\ pcU' = "accum"
  /\ UNCHANGED <<arg, calls, mu, pcR, opR, ret, committed, slow_run>>
  /\ UNCHANGED elsewhere

\* The accumulation block and the remembered position.
U_Accum ==
  /\ pcU = "accum"
  /\ ps' = RememberPrev(Accumulate(ps, arg.ball, arg.dt, Speed(arg.ball)),
                        arg.ball)
  /\ pcU' = "switch"
  /\ UNCHANGED <<arg, calls, mu, pcR, opR, ret, committed, slow_run>>
  /\ UNCHANGED elsewhere

\* The switch: the case's test and its first assignment.
U_Switch ==
  /\ pcU = "switch"
  /\ LET speed == Speed(arg.ball) IN
     IF ps.current.state = IN_MOTION
       THEN LET q == CountSlow(ps, speed) IN
            IF StopReached(q, speed)
              THEN ps' = MarkStopped(q) /\ pcU' = "finalize"
              ELSE ps' = q /\ pcU' = "unlock"
       ELSE IF StartsMoving(ps, speed)
              THEN ps' = MarkInMotion(ps) /\ pcU' = "begin"
              ELSE ps' = ps /\ pcU' = "unlock"
  /\ UNCHANGED <<arg, calls, mu, pcR, opR, ret, committed, slow_run>>
  /\ UNCHANGED elsewhere

\* The rest of the IDLE / STOPPED case.
U_Begin ==
  /\ pcU = "begin"
  /\ ps' = BeginPutt(ps, arg.ball, Speed(arg.ball))
  /\ pcU' = "unlock"
  /\ UNCHANGED <<arg, calls, mu, pcR, opR, ret, committed, slow_run>>
  /\ UNCHANGED elsewhere

\* finalize_putt()
U_Finalize ==
  /\ pcU = "finalize"
  /\ ps' = finalize_putt(ps)
  /\ pcU' = "unlock"
  /\ UNCHANGED <<arg, calls, mu, pcR, opR, ret, committed, slow_run>>
  /\ UNCHANGED elsewhere

\* Mutant: the operation returns with mu_ still locked.
ReleaseKeeps(m, t) == m

\* The lock_guard's destructor at the end of the operation, on every path
\* out of it: mu_ is unlocked.
Release(m, t) == NoThread

\* update() returns: the lock_guard releases mu_.  The orchestration thread
\* goes on to sender.send(..., putt_stats.current()).
U_Unlock ==
  /\ pcU = "unlock"
  /\ mu' = Release(mu, Updater)
  /\ pcU' = "cur_lock"
  /\ committed' = ps
  /\ UNCHANGED <<ps, arg, calls, pcR, opR, ret, slow_run>>
  /\ UNCHANGED elsewhere

\* putt_stats.current() called by the orchestration thread: the lock.
U_CurLock ==
  /\ pcU = "cur_lock"
  /\ CanLock(mu)
  /\ mu' = Updater
  /\ pcU' = "cur_copy"
  /\ UNCHANGED <<ps, arg, calls, pcR, opR, ret, committed, slow_run, snap>>
  /\ UNCHANGED beyond

\* return current_;
U_CurCopy ==
  /\ pcU = "cur_copy"
  /\ snap' = current(ps)
  /\ pcU' = "cur_unlock"
  /\ UNCHANGED <<ps, arg, calls, mu, pcR, opR, ret, committed, slow_run>>
  /\ UNCHANGED beyond

\* current() returns: the lock_guard releases mu_.
U_CurUnlock ==
  /\ pcU = "cur_unlock"
  /\ mu' = Release(mu, Updater)
  /\ pcU' = "send"
  /\ UNCHANGED <<ps, arg, calls, pcR, opR, ret, committed, slow_run, snap>>
  /\ UNCHANGED beyond

\* if (cfg.show_gui) { ... auto stats = putt_stats.current(); ... }: with
\* the GUI the iteration goes on to a second current(), without it the
\* iteration ends.
AfterSend(gui) == IF gui THEN "ov_lock" ELSE "idle"

\* UnrealSender::send: the datagram is formatted from the copy and sent
\* (or not: the result is ignored).
U_Send ==
  /\ pcU = "send"
  /\ snap' = PuttData0
  /\ pcU' = AfterSend(show_gui)
  /\ UNCHANGED <<ps, arg, calls, mu, pcR, opR, ret, committed, slow_run>>
  /\ UNCHANGED beyond

\* auto stats = putt_stats.current() for the overlay (the detections and
\* the tracker lines are drawn first): the lock.
U_OvLock ==
  /\ pcU = "ov_lock"
  /\ CanLock(mu)
  /\ mu' = Updater
  /\ pcU' = "ov_copy"
  /\ UNCHANGED <<ps, arg, calls, pcR, opR, ret, committed, slow_run, snap>>
  /\ UNCHANGED beyond

\* return current_;
U_OvCopy ==
  /\ pcU = "ov_copy"
  /\ snap' = current(ps)
  /\ pcU' = "ov_unlock"
  /\ UNCHANGED <<ps, arg, calls, mu, pcR, opR, ret, committed, slow_run>>
  /\ UNCHANGED beyond

\* current() returns: the lock_guard releases mu_.
U_OvUnlock ==
  /\ pcU = "ov_unlock"
  /\ mu' = Release(mu, Updater)
  /\ pcU' = "key"
  /\ UNCHANGED <<ps, arg, calls, pcR, opR, ret, committed, slow_run, snap>>
  /\ UNCHANGED beyond

\* The overlay text is drawn from the copy, the frame is shown and
\* cv::waitKey(1) returns; the iteration ends.
U_WaitKey ==
  /\ pcU = "key"
  /\ snap' = PuttData0
  /\ pcU' = "idle"
  /\ UNCHANGED <<ps, arg, calls, mu, pcR, opR, ret, committed, slow_run>>
  /\ UNCHANGED beyond

\* A handler thread calls current(), history() or session().
R_Call(r, op) ==
  /\ pcR[r] = "idle"
  /\ pcR' = [pcR EXCEPT ![r] = "lock"]
  /\ opR' = [opR EXCEPT ![r] = op]
  /\ UNCHANGED <<ps, arg, calls, mu, pcU, ret, committed, slow_run>>
  /\ UNCHANGED elsewhere

R_Lock(r) ==
  /\ pcR[r] = "lock"
  /\ CanLock(mu)
  /\ mu' = r
  /\ pcR' = [pcR EXCEPT ![r] = "copy"]
  /\ UNCHANGED <<ps, arg, calls, pcU, opR, ret, committed, slow_run>>
  /\ UNCHANGED elsewhere

\* The body of the read operation: the return value is built.
Copies(r) ==
  /\ pcR[r] = "copy"
  /\ ret' = [ret EXCEPT ![r] = Returned(opR[r], ps)]
  /\ pcR' = [pcR EXCEPT ![r] = "unlock"]
  /\ UNCHANGED <<ps, arg, calls, mu, pcU, opR, committed, slow_run>>
  /\ UNCHANGED <<snap, tvars, mvars, cvars, fvars, show_gui>>

R_Copy(r) == Copies(r) /\ UNCHANGED got

\* The observer's record once the reader has obtained val from op: the
\* latest history() result and the one before it, and the latest
\* session().total_putts.
Noted(g, op, val) ==
  CASE op = "history" ->
         [g EXCEPT !.earlier = g.history, !.history = val.history]
    [] op = "session" -> [g EXCEPT !.total_putts = val.session.total_putts]
    [] op = "current" -> g

\* The same step, with the observer taking note of the result.
R_CopyNoted(r) == Copies(r) /\ got' = Noted(got, opR[r], ret'[r])

\* The read operation returns: the lock_guard releases mu_.
R_Unlock(r) ==
  /\ pcR[r] = "unlock"
  /\ mu' = Release(mu, r)
  /\ pcR' = [pcR EXCEPT ![r] = "respond"]
  /\ UNCHANGED <<ps, arg, calls, pcU, opR, ret, committed, slow_run>>
  /\ UNCHANGED elsewhere

\* The handler serializes the returned value (putt_data_json, snprintf)
\* into the response, which is written to the client.
R_Respond(r) ==
  /\ pcR[r] = "respond"
  /\ pcR' = [pcR EXCEPT ![r] = "idle"]
  /\ ret' = [ret EXCEPT ![r] = NoRet]
  /\ UNCHANGED <<ps, arg, calls, mu, pcU, opR, committed, slow_run>>
  /\ UNCHANGED elsewhere

\* A step of a thread inside a call it has made.
ThreadStep ==
  \/ U_Lock
  \/ U_Check
  \/ U_Accum
  \/ U_Switch
  \/ U_Begin
  \/ U_Finalize
  \/ U_Unlock
  \/ U_CurLock
  \/ U_CurCopy
  \/ U_CurUnlock
  \/ U_Send
  \/ U_OvLock
  \/ U_OvCopy
  \/ U_OvUnlock
  \/ U_WaitKey
  \/ \E r \in Readers : R_Lock(r)
  \/ \E r \in Readers : R_Copy(r)
  \/ \E r \in Readers : R_Unlock(r)
  \/ \E r \in Readers : R_Respond(r)

NextConc ==
  \/ \E ball \in ConcBalls, dt \in ConcDts : U_Call(ball, dt)
  \/ \E r \in Readers, op \in Ops : R_Call(r, op)
  \/ ThreadStep

SpecConc == Init /\ [][NextConc]_vars

\* ---- update() and one reader ----

\* Number of update() calls in a run with one reader: two putts can
\* complete.
MaxReadCalls == 6

\* The handler thread that is observed.
Reader == "r1"

\* The balls fed: moving and at rest.
ReadBalls == {Ball(TRUE, <<0, 0>>, <<6, 0>>), Ball(TRUE, <<0, 0>>, <<0, 0>>)}

NextRead ==
  \/ \E ball \in ReadBalls : U_CallUpTo(ball, 1, MaxReadCalls)
  \/ \E op \in Ops : R_Call(Reader, op)
  \/ U_Lock
  \/ U_Check
  \/ U_Accum
  \/ U_Switch
  \/ U_Begin
  \/ U_Finalize
  \/ U_Unlock
  \/ U_CurLock
  \/ U_CurCopy
  \/ U_CurUnlock
  \/ U_Send
  \/ U_OvLock
  \/ U_OvCopy
  \/ U_OvUnlock
  \/ U_WaitKey
  \/ R_Lock(Reader)
  \/ R_CopyNoted(Reader)
  \/ R_Unlock(Reader)
  \/ R_Respond(Reader)

SpecRead == Init /\ [][NextRead]_vars

\* Fair scheduling: a thread that can take a step eventually takes it, and
\* a thread waiting for the lock gets it if the lock is free again and
\* again.  Making a new call (U_Call, R_Call) is never forced.
\* The steps of the orchestration thread that wait for nothing, its steps
\* that wait for mu_, and a handler's steps that wait for nothing.  At most
\* one step of each kind is enabled at a time.
UpdaterRuns ==
  \/ U_Check \/ U_Accum \/ U_Switch \/ U_Begin \/ U_Finalize \/ U_Unlock
  \/ U_CurCopy \/ U_CurUnlock \/ U_Send
  \/ U_OvCopy \/ U_OvUnlock \/ U_WaitKey
UpdaterLocks == U_Lock \/ U_CurLock \/ U_OvLock
ReaderRuns(r) == R_Copy(r) \/ R_Unlock(r) \/ R_Respond(r)

FairConc ==
  /\ WF_vars(UpdaterRuns)
  /\ SF_vars(UpdaterLocks)
  /\ \A r \in Readers : WF_vars(ReaderRuns(r)) /\ SF_vars(R_Lock(r))

\* The frames of the runs checked for progress: an undetected ball, a
\* ball moving above the threshold and a ball at rest, enough calls for
\* a putt to start and stop.
MaxFairCalls == 3
FairBalls ==
  {Ball(FALSE, <<0, 0>>, <<0, 0>>), Ball(TRUE, <<0, 0>>, <<6, 0>>),
   Ball(TRUE, <<0, 0>>, <<0, 0>>)}

NextFair ==
  \/ \E ball \in FairBalls : U_CallUpTo(ball, 1, MaxFairCalls)
  \/ \E r \in Readers, op \in Ops : R_Call(r, op)
  \/ ThreadStep

SpecConcFair == Init /\ [][NextFair]_vars /\ FairConc

\* ---- the Tracker alone ----

\* The PuttStats object, its threads and the observers.
pvars ==
  <<ps, arg, calls, mu, pcU, pcR, opR, ret, committed, slow_run, snap>>

\* One call of Tracker::update(detections, dt).
TrackerUpdate(dets, dt) ==
  /\ tcalls < MaxTrackCalls
  /\ trk' = tracker_update(trk, dets, dt)
  /\ targ' = [dets |-> dets, dt |-> dt]
  /\ tcalls' = tcalls + 1
  /\ tprev' = trk
  /\ UNCHANGED <<pvars, mvars, cvars, apart>>

NextTrack == \E dets \in DetLists, dt \in TrackDts : TrackerUpdate(dets, dt)

SpecTrack == Init /\ [][NextTrack]_vars

\* ---- one Tracker::update on every short detection list ----

\* A second putter box, as confident as PutterC, centred at (24,8).
PutterD == Det(1, 80, 20, 4, 28, 12)

\* The detections and the longest list of the selection runs.
SelDets == {BallA, BallB, BallB90, BallZero, PutterC, PutterD, Other}
MaxSelLen == 3
SelLists == UNION {[1..n -> SelDets] : n \in 0..MaxSelLen}

\* The first Tracker::update of a fresh Tracker.
SelectOne(dets) == tcalls = 0 /\ TrackerUpdate(dets, ROne)

NextSelect == \E dets \in SelLists : SelectOne(dets)

SpecSelect == Init /\ [][NextSelect]_vars

\* ---- a ball detected on every frame, at intervals down to zero ----

\* Frame intervals at and around the epsilon, and the number of updates.
EpsDts == {RZero, Epsilon, RInt(1)}
MaxEpsCalls == 4

NextEps ==
  /\ tcalls < MaxEpsCalls
  /\ \E dets \in {<<BallA>>, <<BallB>>}, dt \in EpsDts : TrackerUpdate(dets, dt)

SpecEps == Init /\ [][NextEps]_vars

\* ---- main: the command line, setup, the inference loop, shutdown, and
\* ---- the server thread with a request handler ----

\* Number of frames the source delivers in a run.
MaxFrames == 4

\* Number of words on the command line after the program name.
MaxArgs == 3

\* The words of the command lines: options, a path, the empty string, a
\* number, and a number too large for an int.
ArgWords ==
  {"--engine", "--port", "--no-gui", "--help", "-h", "e", "", "80",
   "99999999999"}

\* The command lines of up to n words.
ArgLists(n) == UNION {[1..k -> ArgWords] : k \in 0..n}

\* struct Config with its default member initialisers.
Config0 ==
  [engine_path |-> "", video_source |-> "0", unreal_host |-> "127.0.0.1",
   unreal_port |-> 7001, api_port |-> 8080, conf_thresh |-> "0.5",
   show_gui |-> TRUE]

\* std::stoi / std::stof on a word: the number, or the exception thrown
\* (std::invalid_argument when the word does not start with a number,
\* std::out_of_range when the number does not fit; a float holds 1e11).
stoi(w) ==
  IF w = "80" THEN [thrown |-> "none", value |-> 80]
  ELSE IF w = "99999999999" THEN [thrown |-> "out_of_range", value |-> 0]
  ELSE [thrown |-> "invalid_argument", value |-> 0]
stof(w) ==
  IF w \in {"80", "99999999999"} THEN [thrown |-> "none", value |-> w]
  ELSE [thrown |-> "invalid_argument", value |-> w]

\* The for loop of parse_args from word i on (argv[i], argc = Len(argv)
\* + 1): an option that takes a value consumes the next word, whatever it
\* is; as the last word it matches no branch and is an unknown argument.
\* An exception thrown by stoi / stof is caught nowhere: std::terminate.
RECURSIVE parse_from(_, _, _)
parse_from(argv, i, cfg) ==
  IF i > Len(argv)
    THEN IF cfg.engine_path = ""
           THEN [end |-> "exit1", cfg |-> cfg]
           ELSE [end |-> "return", cfg |-> cfg]
  ELSE LET a == argv[i]
           more == i < Len(argv)
       IN
    IF a = "--engine" /\ more
      THEN parse_from(argv, i + 2, [cfg EXCEPT !.engine_path = argv[i + 1]])
    ELSE IF a = "--source" /\ more
      THEN parse_from(argv, i + 2, [cfg EXCEPT !.video_source = argv[i + 1]])
    ELSE IF a = "--host" /\ more
      THEN parse_from(argv, i + 2, [cfg EXCEPT !.unreal_host = argv[i + 1]])
    ELSE IF a = "--port" /\ more
      THEN IF stoi(argv[i + 1]).thrown # "none"
             THEN [end |-> "terminate", cfg |-> cfg]
             ELSE parse_from(argv, i + 2,
                    [cfg EXCEPT !.unreal_port = stoi(argv[i + 1]).value
                                                  % 65536])
    ELSE IF a = "--api-port" /\ more
      THEN IF stoi(argv[i + 1]).thrown # "none"
             THEN [end |-> "terminate", cfg |-> cfg]
             ELSE parse_from(argv, i + 2,
                    [cfg EXCEPT !.api_port = stoi(argv[i + 1]).value % 65536])
    ELSE IF a = "--conf" /\ more
      THEN IF stof(argv[i + 1]).thrown # "none"
             THEN [end |-> "terminate", cfg |-> cfg]
             ELSE parse_from(argv, i + 2,
                    [cfg EXCEPT !.conf_thresh = stof(argv[i + 1]).value])
    ELSE IF a = "--no-gui"
      THEN parse_from(argv, i + 1, [cfg EXCEPT !.show_gui = FALSE])
    ELSE IF a \in {"-h", "--help"}
      THEN [end |-> "exit0", cfg |-> cfg]
    ELSE [end |-> "exit1", cfg |-> cfg]

\* static Config parse_args(int argc, char** argv)
parse_args(argv) == parse_from(argv, 1, Config0)

\* Config cfg = parse_args(argc, argv): main goes on with the Config, or
\* the process ends in parse_args: std::exit(0) after --help, std::exit(1)
\* on an unknown argument or a missing --engine, std::terminate (abort,
\* status 134) on an uncaught exception.
M_ParseArgs(argv) ==
  /\ mpc = "args"
  /\ LET r == parse_args(argv) IN
       /\ mpc' = CASE r.end = "return" -> "load"
                   [] r.end = "exit0" -> "exit0"
                   [] r.end = "exit1" -> "exit1"
                   [] OTHER -> "abort"
       /\ show_gui' = r.cfg.show_gui
       /\ failed' = IF r.end \in {"exit1", "terminate"} THEN "args"
                    ELSE failed
  /\ UNCHANGED <<running_, srv, sock_open, frame_count, nread, sends, frame>>
  /\ UNCHANGED <<pvars, tvars, cvars, fvars, got>>

\* The frames of a run of main: no ball, or one ball box centred on the
\* x axis at one of these places; dt is the time since the previous frame.
MainCentres == {0, 5, 25}
MainDetLists ==
  {<<>>} \cup {<<Det(0, 90, c - 2, -2, c + 2, 2)>> : c \in MainCentres}
MainDts == {1}

\* PuttStats is fed by the Tracker in units of 1/Scale pixel.  The box
\* centres are whole, alpha is 3/5, the decay 9/10 and dt is 1, so the
\* positions and velocities the tracker reaches are fractions over
\* 2^a * 5^b; with up to eight frames every one of them is a whole number
\* of these units and is carried over to PuttStats without rounding.
Scale == 2^4 * 5^7

\* A float of the track (TrackedObject::x, y, vx, vy) in units of 1/Scale.
Fix(r) == r[1] * (Scale \div r[2])

\* tracker.ball() as PuttStats::update reads it.
BallOf(track) ==
  Ball(track.valid, <<Fix(track.x), Fix(track.y)>>,
       <<Fix(track.vx), Fix(track.vy)>>)

\* if (!engine.load(...)) return 1;
M_Load(ok) ==
  /\ mpc = "load"
  /\ mpc' = IF ok THEN "open" ELSE "exit1"
  /\ failed' = IF ok THEN failed ELSE "engine"
  /\ UNCHANGED <<running_, srv, sock_open, frame_count, nread, sends, frame>>
  /\ UNCHANGED <<pvars, tvars, cvars, apart>>

\* if (!pipeline.open(...)) return 1;
M_Open(ok) ==
  /\ mpc = "open"
  /\ mpc' = IF ok THEN "sender" ELSE "exit1"
  /\ failed' = IF ok THEN failed ELSE "source"
  /\ UNCHANGED <<running_, srv, sock_open, frame_count, nread, sends, frame>>
  /\ UNCHANGED <<pvars, tvars, cvars, apart>>

\* Mutant: a sender that cannot be initialised ends the process.
AfterSenderInitFatal(ok) == IF ok THEN "construct" ELSE "exit1"

\* if (!sender.init(...)) { warning }: main goes on either way.
AfterSenderInit(ok) == "construct"

M_SenderInit(ok) ==
  /\ mpc = "sender"
  /\ sock_open' = ok
  /\ mpc' = AfterSenderInit(ok)
  /\ failed' = IF ok THEN failed ELSE "sender"
  /\ UNCHANGED <<running_, srv, frame_count, nread, sends, frame>>
  /\ UNCHANGED <<pvars, tvars, cvars, apart>>

\* Tracker tracker(0.6f, 15); PuttStats putt_stats(5.f, 15);
\* StatsApi api(putt_stats, port);
M_Construct ==
  /\ mpc = "construct"
  /\ trk' = Tracker(alpha, max_lost)
  /\ ps' = PuttStats(motion_threshold * Scale, stop_frames_required)
  /\ committed' = ps'
  /\ mpc' = "start"
  /\ UNCHANGED <<arg, calls, mu, pcU, pcR, opR, ret, slow_run, snap>>
  /\ UNCHANGED <<targ, tcalls, tprev>>
  /\ UNCHANGED <<running_, srv, sock_open, frame_count, nread, sends, failed,
                 frame>>
  /\ UNCHANGED <<cvars, apart>>

\* StatsApi::start
M_ApiStart ==
  /\ mpc = "start"
  /\ running_' = TRUE
  /\ srv' = IF running_ THEN srv ELSE "loop"
  /\ mpc' = "loop"
  /\ UNCHANGED <<sock_open, frame_count, nread, sends, failed, frame>>
  /\ UNCHANGED <<pvars, tvars, cvars, apart>>

\* Mutant: an inference failure ends the loop.
AfterInferFailureStops == "stop"

\* if (!engine.infer(...)) { log; continue; }
AfterInferFailure == "loop"

\* A frame on which inference fails.
M_FrameSkipped ==
  /\ mpc = "loop"
  /\ nread < MaxFrames
  /\ nread' = nread + 1
  /\ frame' = [infer |-> "failed", sent |-> "none", key |-> "none"]
  /\ mpc' = AfterInferFailure
  /\ UNCHANGED <<running_, srv, sock_open, frame_count, sends, failed>>
  /\ UNCHANGED <<pvars, tvars, cvars, apart>>

\* A frame is read and inferred: tracker.update(dets, dt), and the call
\* putt_stats.update(tracker.ball(), dt), up to its wait for mu_.  The
\* steps of update() and of the current() calls that follow are U_Lock
\* ... U_CurUnlock and U_OvLock ... U_OvUnlock; the handler runs between
\* them.
M_Track(dets, dt) ==
  /\ mpc = "loop"
  /\ nread < MaxFrames
  /\ pcU = "idle"
  /\ nread' = nread + 1
  /\ trk' = tracker_update(trk, dets, RInt(dt))
  /\ targ' = [dets |-> dets, dt |-> RInt(dt)]
  /\ tcalls' = tcalls + 1
  /\ tprev' = trk
  /\ arg' = [ball |-> BallOf(trk'.ball_), dt |-> dt]
  /\ calls' = calls + 1
  /\ pcU' = "lock"
  /\ slow_run' = SlowRunAfter(ps, slow_run, BallOf(trk'.ball_))
  /\ frame' = [infer |-> "ok", sent |-> "none", key |-> "none"]
  /\ mpc' = "frame"
  /\ UNCHANGED <<ps, mu, pcR, opR, ret, committed, snap>>
  /\ UNCHANGED <<running_, srv, sock_open, frame_count, sends, failed>>
  /\ UNCHANGED <<cvars, apart>>

\* UnrealSender::send: false without a socket or when sendto fails.
send(open, sendto_ok) == IF open /\ sendto_ok THEN "ok" ELSE "failed"

\* sender.send(tracker.ball(), tracker.putter(), putt_stats.current()) with
\* the copy current() returned; the result is ignored.  Without the GUI
\* the iteration ends here: frame_count++.
M_Send(sendto_ok) ==
  /\ mpc = "frame"
  /\ pcU = "send"
  /\ sends' = sends + 1
  /\ frame' = [frame EXCEPT !.sent = send(sock_open, sendto_ok)]
  /\ snap' = PuttData0
  /\ pcU' = AfterSend(show_gui)
  /\ mpc' = IF show_gui THEN "frame" ELSE "loop"
  /\ frame_count' = IF show_gui THEN frame_count ELSE frame_count + 1
  /\ UNCHANGED <<ps, arg, calls, mu, pcR, opR, ret, committed, slow_run>>
  /\ UNCHANGED <<running_, srv, sock_open, nread, failed>>
  /\ UNCHANGED <<tvars, cvars, apart>>

\* With the GUI: the overlay is drawn from the second copy, the frame is
\* shown, and if (cv::waitKey(1) == 'q') break; otherwise frame_count++.
M_WaitKey(key) ==
  /\ mpc = "frame"
  /\ pcU = "key"
  /\ snap' = PuttData0
  /\ pcU' = "idle"
  /\ frame' = [frame EXCEPT !.key = key]
  /\ mpc' = IF key = "q" THEN "stop" ELSE "loop"
  /\ frame_count' = IF key = "q" THEN frame_count ELSE frame_count + 1
  /\ UNCHANGED <<ps, arg, calls, mu, pcR, opR, ret, committed, slow_run>>
  /\ UNCHANGED <<running_, srv, sock_open, nread, sends, failed>>
  /\ UNCHANGED <<tvars, cvars, apart>>

\* pipeline.read returns false: end of stream.
M_EndOfStream ==
  /\ mpc = "loop"
  /\ mpc' = "stop"
  /\ UNCHANGED <<running_, srv, sock_open, frame_count, nread, sends, failed,
                 frame>>
  /\ UNCHANGED <<pvars, tvars, cvars, apart>>

\* StatsApi::stop: running_ = false
M_Stop ==
  /\ mpc = "stop"
  /\ running_' = FALSE
  /\ mpc' = "join"
  /\ UNCHANGED <<srv, sock_open, frame_count, nread, sends, failed, frame>>
  /\ UNCHANGED <<pvars, tvars, cvars, apart>>

\* StatsApi::stop: thread_.join() returns once run() has returned.
M_Join ==
  /\ mpc = "join"
  /\ srv = "ended"
  /\ mpc' = "close"
  /\ UNCHANGED <<running_, srv, sock_open, frame_count, nread, sends, failed,
                 frame>>
  /\ UNCHANGED <<pvars, tvars, cvars, apart>>

\* sender.close(); return 0;
M_Close ==
  /\ mpc = "close"
  /\ sock_open' = FALSE
  /\ mpc' = "exit0"
  /\ UNCHANGED <<running_, srv, frame_count, nread, sends, failed, frame>>
  /\ UNCHANGED <<pvars, tvars, cvars, apart>>

\* StatsApi::run: while (running_)
S_Test ==
  /\ srv = "loop"
  /\ srv' = IF running_ THEN "listen" ELSE "ended"
  /\ UNCHANGED <<mpc, running_, sock_open, frame_count, nread, sends, failed,
                 frame>>
  /\ UNCHANGED <<pvars, tvars, cvars, apart>>

\* StatsApi::run: svr.listen("0.0.0.0", port_).  If the port cannot be
\* bound the call returns at once; otherwise it serves requests and
\* returns only when the server is stopped, which nothing in the program
\* does (svr is local to run() and stop() only clears running_).
S_Listen(bound) ==
  /\ srv = "listen"
  /\ srv' = IF bound THEN "serving" ELSE "loop"
  /\ UNCHANGED <<mpc, running_, sock_open, frame_count, nread, sends, failed,
                 frame>>
  /\ UNCHANGED <<pvars, tvars, cvars, apart>>

\* A request arrives while the server listens: its handler calls
\* current(), history() or session().
H_Request(op) ==
  /\ srv = "serving"
  /\ R_Call(Reader, op)

\* The steps of the orchestration thread in update() and current(), which
\* wait for nothing, and those that wait for mu_.
MainRuns ==
  \/ U_Check \/ U_Accum \/ U_Switch \/ U_Begin \/ U_Finalize \/ U_Unlock
  \/ U_CurCopy \/ U_CurUnlock \/ U_OvCopy \/ U_OvUnlock
MainLocks == U_Lock \/ U_CurLock \/ U_OvLock

MainStep ==
  \/ mpc = "args" /\ \E argv \in ArgLists(MaxArgs) : M_ParseArgs(argv)
  \/ \E ok \in BOOLEAN : M_Load(ok)
  \/ \E ok \in BOOLEAN : M_Open(ok)
  \/ \E ok \in BOOLEAN : M_SenderInit(ok)
  \/ M_Construct
  \/ M_ApiStart
  \/ M_FrameSkipped
  \/ \E dets \in MainDetLists, dt \in MainDts : M_Track(dets, dt)
  \/ MainRuns
  \/ MainLocks
  \/ \E sendto_ok \in BOOLEAN : M_Send(sendto_ok)
  \/ \E key \in {"none", "q"} : M_WaitKey(key)
  \/ M_EndOfStream
  \/ M_Stop
  \/ M_Join
  \/ M_Close

ServerStep ==
  \/ S_Test
  \/ \E bound \in BOOLEAN : S_Listen(bound)

HandlerStep ==
  \/ \E op \in Ops : H_Request(op)
  \/ R_Lock(Reader)
  \/ ReaderRuns(Reader)

NextMain == MainStep \/ ServerStep \/ HandlerStep

SpecMain == Init /\ [][NextMain]_vars

\* Every thread is scheduled, a thread waiting for mu_ gets it, and the
\* frame source ends.
SpecMainFair ==
  /\ SpecMain
  /\ WF_vars(MainStep)
  /\ SF_vars(MainLocks)
  /\ WF_vars(ServerStep)
  /\ WF_vars(ReaderRuns(Reader))
  /\ SF_vars(R_Lock(Reader))

\* ---- main's loop: the Tracker feeding PuttStats, with a handler thread ----

\* Number of frames fed: a putt can start and stop, the track can be lost
\* and the ball be seen again.
MaxFeedFrames == 7

\* motion_threshold of the PuttStats fed: the boundary 0, and main's 5.
FeedThresholds == {0, 5}

\* The frames fed: no ball, or one ball box centred on the x axis at one
\* of these places.  A ball seen at the one and then at the other gets the
\* speed 0.6 * 0.6 * 15 = 5.4, above main's threshold, and 0.9 * 5.4 on the
\* next frame without a ball, below it.
FeedCentres == {5, 20}
FeedDetLists ==
  {<<>>} \cup {<<Det(0, 90, c - 2, -2, c + 2, 2)>> : c \in FeedCentres}

\* Tracker tracker(0.6f, max_lost); PuttStats putt_stats(mt, stop_frames);
FeedConstruct(mt) ==
  /\ cpc = "default"
  /\ cpc' = "fed"
  /\ trk' = Tracker(alpha, max_lost)
  /\ ps' = PuttStats(mt * Scale, stop_frames_required)
  /\ committed' = ps'
  /\ UNCHANGED <<arg, calls, mu, pcU, pcR, opR, ret, slow_run, snap>>
  /\ UNCHANGED <<targ, tcalls, tprev>>
  /\ UNCHANGED <<mvars, apart>>

\* tracker.update(detections, dt), and the call
\* putt_stats.update(tracker.ball(), dt) up to its wait for mu_, as in
\* M_Track.  update() itself is U_Lock ... U_Unlock, and the rest of the
\* iteration is the current() of sender.send and that of the overlay
\* (U_CurLock ... U_WaitKey).
FeedTrack(dets, dt) ==
  /\ cpc = "fed"
  /\ tcalls < MaxFeedFrames
  /\ pcU = "idle"
  /\ trk' = tracker_update(trk, dets, RInt(dt))
  /\ targ' = [dets |-> dets, dt |-> RInt(dt)]
  /\ tcalls' = tcalls + 1
  /\ tprev' = trk
  /\ arg' = [ball |-> BallOf(trk'.ball_), dt |-> dt]
  /\ calls' = calls + 1
  /\ pcU' = "lock"
  /\ slow_run' = SlowRunAfter(ps, slow_run, BallOf(trk'.ball_))
  /\ UNCHANGED <<ps, mu, pcR, opR, ret, committed, snap>>
  /\ UNCHANGED <<mvars, cvars, apart>>

\* A request is served once api.start() has been called, which is after
\* the construction: its handler calls current(), history() or session().
FeedRequest(op) ==
  /\ cpc = "fed"
  /\ R_Call(Reader, op)

NextFeed ==
  \/ \E mt \in FeedThresholds : FeedConstruct(mt)
  \/ \E dets \in FeedDetLists, dt \in MainDts : FeedTrack(dets, dt)
  \/ MainRuns
  \/ MainLocks
  \/ U_Send
  \/ U_WaitKey
  \/ \E op \in Ops : FeedRequest(op)
  \/ R_Lock(Reader)
  \/ ReaderRuns(Reader)

SpecFeed == Init /\ [][NextFeed]_vars

\* ---- Tracker and PuttStats built from arbitrary parameters ----

\* Constructor arguments, valid and not: a smoothing factor in and outside
\* (0,1], max_lost, motion_threshold and stop_frames positive, zero and
\* negative.
CfgAlphas == {<<0, 1>>, <<3, 5>>, <<2, 1>>}
CfgMaxLosts == {-1, 0, 1}
CfgThresholds == {-5, 0, 5}
CfgStopFrames == {-1, 0, 2}

\* Number of update calls on each object built this way.
MaxCfgCalls == 2

\* Tracker tracker(a, ml); PuttStats putt_stats(mt, sf);
\* Neither constructor examines its arguments.
Construct(a, ml, mt, sf) ==
  /\ cpc = "default"
  /\ cpc' = "built"
  /\ trk' = Tracker(a, ml)
  /\ ps' = PuttStats(mt, sf)
  /\ committed' = ps'
  /\ UNCHANGED <<arg, calls, mu, pcU, pcR, opR, ret, slow_run, snap>>
  /\ UNCHANGED <<targ, tcalls, tprev>>
  /\ UNCHANGED <<mvars, apart>>

NextCfg ==
  \/ \E a \in CfgAlphas, ml \in CfgMaxLosts, mt \in CfgThresholds,
        sf \in CfgStopFrames : Construct(a, ml, mt, sf)
  \/ /\ cpc = "built" /\ tcalls < MaxCfgCalls
     /\ \E dets \in {<<>>, <<BallA>>, <<BallB>>} : TrackerUpdate(dets, ROne)
  \/ /\ cpc = "built" /\ calls < MaxCfgCalls
     /\ \E ball \in FairBalls : Update(ball, 1)

SpecCfg == Init /\ [][NextCfg]_vars

\* ---- A track held in floats, detected on every frame ----

\* Tracker tracker(a, max_lost) in a program compiled with this
\* contraction: another smoothing factor or another build than the
\* initial one, chosen before the first update.
Build32(a, build) ==
  /\ fcalls = 0
  /\ ftrk.alpha_ # a \/ fbuild # build
  /\ ftrk' = Track32(a)
  /\ fprev' = ftrk'
  /\ fbuild' = build
  /\ UNCHANGED <<fdet, fcalls, got, show_gui>>
  /\ UNCHANGED <<pvars, tvars, mvars, cvars>>

\* One call of Tracker::update with a ball detection of this box.
TrackerUpdate32(det) ==
  /\ fcalls < MaxEmaCalls
  /\ fprev' = ftrk
  /\ ftrk' = update_track32(fbuild, ftrk, det)
  /\ fdet' = det
  /\ fcalls' = fcalls + 1
  /\ UNCHANGED <<fbuild, got, show_gui>>
  /\ UNCHANGED <<pvars, tvars, mvars, cvars>>

NextEma ==
  \/ \E a \in Alphas32, build \in Contractions : Build32(a, build)
  \/ \E det \in Boxes32 : TrackerUpdate32(det)

SpecEma == Init /\ [][NextEma]_vars

\* ------------------------------------------------------------------------
\* Properties
\* ------------------------------------------------------------------------

\* A step in which the orchestration thread makes an update() call; its
\* arguments are then arg'.ball and arg'.dt.
Called == calls' = calls + 1

\* The update() call of this step moves the putt into IN_MOTION.
Enters ==
  ps.current.state # IN_MOTION /\ ps'.current.state = IN_MOTION

\* The update() call of this step moves the putt from IN_MOTION to STOPPED.
Stops ==
  ps.current.state = IN_MOTION /\ ps'.current.state = STOPPED

Max(a, b) == IF a >= b THEN a ELSE b

\* C1: whatever current(), history() or session() returns to a reader
\* running concurrently with update() is the value of that operation on the
\* PuttStats state as it stood after a completed update() call (or after
\* construction), never on the middle of one.
C1_ReadersSeeCompletedUpdates ==
  [][\A r \in Readers :
       (pcR[r] = "copy" /\ pcR'[r] = "unlock")
         => ret'[r][opR[r]] = View(opR[r], committed)]_vars

\* A reader is returning current() with the finished first putt (STOPPED,
\* already in history) while the next update() call is waiting for the
\* lock and the other reader is inside a read as well.
C1_Witness ==
  /\ pcR["r1"] = "unlock" /\ opR["r1"] = "current"
  /\ ret["r1"].current.state = STOPPED /\ Len(ps.history) = 1
  /\ pcU = "lock"
  /\ pcR["r2"] = "lock"

\* C2: the putt starts IDLE; an update() changes the state only along
\* IDLE -> IN_MOTION, IN_MOTION -> STOPPED or STOPPED -> IN_MOTION (never
\* IDLE -> STOPPED, never back to IDLE), and at most once: a call that
\* ends in the state it began in has made no stop in between (history
\* unchanged).
C2_StateMachine ==
  /\ ps.current.state = IDLE
  /\ [][/\ ps'.current.state # ps.current.state
             => <<ps.current.state, ps'.current.state>> \in
                  {<<IDLE, IN_MOTION>>, <<IN_MOTION, STOPPED>>,
                   <<STOPPED, IN_MOTION>>}
        /\ ps'.current.state = ps.current.state
             => ps'.history = ps.history]_vars

\* The second putt is in motion: all three transitions have been taken.
C2_Witness ==
  ps.current.state = IN_MOTION /\ Len(ps.history) = 1

\* C3: an update() that begins IN_MOTION ends STOPPED exactly when, on that
\* call, the run of consecutive slow valid-ball updates reaches
\* stop_frames_required; while the putt is IN_MOTION the run is below it,
\* and a valid ball at or above the threshold takes the run back to 0.
C3_StopsExactlyAtRun ==
  [][(Called /\ ps.current.state = IN_MOTION)
       => /\ slow_run < stop_frames_required
          /\ ps'.current.state = STOPPED
               <=> (slow_run' = stop_frames_required
                      /\ slow_run' = slow_run + 1)
          /\ (arg'.ball.valid /\ Speed(arg'.ball) >= motion_threshold)
               => (slow_run' = 0 /\ ps'.frames_below_threshold = 0
                     /\ ps'.current.state = IN_MOTION)]_vars

\* The putt has just stopped on the call that completed the run, and a
\* frame faster than the launch lies between its launch and the run.
C3_Witness ==
  /\ ps.current.state = STOPPED
  /\ slow_run = stop_frames_required
  /\ arg.ball.valid /\ Speed(arg.ball) < motion_threshold
  /\ ps.current.peak_speed > ps.current.launch_speed

\* C4: every update() leaves history unchanged or appends one record; it
\* appends exactly when it takes IN_MOTION -> STOPPED, the record is the
\* current PuttData of that moment (state STOPPED), and the records
\* already there stay as and where they are.
C4_HistoryAppendOnly ==
  [][IF Stops
       THEN /\ ps'.history = Append(ps.history, ps'.current)
            /\ ps'.history[Len(ps'.history)].state = STOPPED
       ELSE ps'.history = ps.history]_vars

\* Two putts are in history and the second differs from the first.
C4_Witness ==
  /\ Len(ps.history) = 2
  /\ ps.history[1].putt_number = 1
  /\ ps.history[2].putt_number = 2
  /\ ps.history[1].total_distance # ps.history[2].total_distance

\* C5 as stated: in IDLE, a valid ball with speed at or above the threshold
\* starts the putt on that call, numbered completed putts + 1.
C5_AtOrAboveStarts ==
  [][(Called /\ ps.current.state = IDLE /\ arg'.ball.valid
        /\ Speed(arg'.ball) >= motion_threshold)
       => (ps'.current.state = IN_MOTION
             /\ ps'.current.putt_number = Len(ps.history) + 1)]_vars

\* C5 amended: in IDLE, a valid ball with speed strictly above the
\* threshold starts the putt on that call, numbered completed putts + 1
\* (1 for the first putt); at a speed equal to the threshold the putt
\* stays IDLE.
C5_StrictlyAboveStarts ==
  [][(Called /\ ps.current.state = IDLE /\ arg'.ball.valid)
       => /\ Speed(arg'.ball) > motion_threshold
               => (ps'.current.state = IN_MOTION
                     /\ ps'.current.putt_number = Len(ps.history) + 1
                     /\ ps'.current.putt_number = 1)
          /\ Speed(arg'.ball) = motion_threshold
               => (ps'.current.state = IDLE
                     /\ ps'.current.putt_number = 0)]_vars

\* The first putt has just begun on the second call, made in IDLE after a
\* first call that did not start it.
C5_Witness ==
  /\ ps.current.state = IN_MOTION
  /\ ps.current.putt_number = 1
  /\ calls = 2
  /\ ps.current.total_distance = 0 /\ ps.current.time_in_motion = 0
  /\ arg.ball.valid /\ Speed(arg.ball) > motion_threshold

\* C6: after an update() that enters IN_MOTION, the current PuttData is a
\* fresh putt: numbered len(history) + 1, launch = peak = current speed =
\* the ball's speed, distance, break and time 0, start = final = the
\* ball's position, below-threshold counter 0.
C6_FreshPuttOnEntry ==
  [][(Called /\ Enters)
       => /\ ps'.current.putt_number = Len(ps'.history) + 1
          /\ ps'.current.launch_speed = Speed(arg'.ball)
          /\ ps'.current.peak_speed = Speed(arg'.ball)
          /\ ps'.current.current_speed = Speed(arg'.ball)
          /\ ps'.current.total_distance = 0
          /\ ps'.current.break_distance = 0
          /\ ps'.current.time_in_motion = 0
          /\ ps'.current.start_x = arg'.ball.x
          /\ ps'.current.start_y = arg'.ball.y
          /\ ps'.current.final_x = arg'.ball.x
          /\ ps'.current.final_y = arg'.ball.y
          /\ ps'.frames_below_threshold = 0]_vars

\* The second putt has just begun, away from where and slower than the
\* first one began, and the first had distance, break and time to forget.
C6_Witness ==
  /\ ps.current.state = IN_MOTION
  /\ Len(ps.history) = 1
  /\ ps.current.putt_number = 2
  /\ ps.current.total_distance = 0 /\ ps.current.break_distance = 0
  /\ ps.current.time_in_motion = 0
  /\ ps.history[1].total_distance > 0
  /\ ps.history[1].break_distance > 0
  /\ ps.history[1].time_in_motion > 0
  /\ ps.history[1].launch_speed > ps.current.launch_speed
  /\ ps.history[1].start_x # ps.current.start_x

\* C7: an update() with an invalid ball leaves the current PuttData (state
\* and current_speed included), history and the below-threshold counter as
\* they were and forgets the previous position; the first valid-ball
\* update() after an invalid one adds nothing to total_distance.
C7_InvalidBallOnlyBreaksContinuity ==
  [][Called
       => /\ ~arg'.ball.valid
               => (ps'.current = ps.current /\ ps'.history = ps.history
                     /\ ps'.frames_below_threshold
                          = ps.frames_below_threshold
                     /\ ~ps'.has_prev)
          /\ (calls > 0 /\ ~arg.ball.valid /\ arg'.ball.valid)
               => ps'.current.total_distance
                    = IF Enters THEN 0 ELSE ps.current.total_distance]_vars

\* A putt in motion has just taken a valid ball that is not where the putt
\* last saw it (the ball moved while it was invalid), with a distance
\* already accumulated before the gap.
C7_Witness ==
  /\ ps.current.state = IN_MOTION
  /\ arg.ball.valid
  /\ ps.has_prev
  /\ <<ps.current.final_x, ps.current.final_y>> # <<arg.ball.x, arg.ball.y>>
  /\ ps.current.total_distance > 0

\* C8 as stated: every valid-ball update() that begins IN_MOTION adds dt to
\* time_in_motion, raises peak_speed to the speed if that is larger, and
\* sets final to the ball's position, whether or not the update before it
\* had a valid ball.
C8_EveryValidFrameAccumulates ==
  [][(Called /\ ps.current.state = IN_MOTION /\ arg'.ball.valid)
       => /\ ps'.current.time_in_motion
               = ps.current.time_in_motion + arg'.dt
          /\ ps'.current.peak_speed
               = Max(ps.current.peak_speed, Speed(arg'.ball))
          /\ ps'.current.final_x = arg'.ball.x
          /\ ps'.current.final_y = arg'.ball.y]_vars

\* C9 as stated: an update() that begins and ends IDLE, or begins and ends
\* STOPPED, leaves every field of the current PuttData unchanged.
C9_RestingLeavesCurrentUnchanged ==
  [][(Called /\ ps.current.state \in {IDLE, STOPPED}
        /\ ps'.current.state = ps.current.state)
       => ps'.current = ps.current]_vars

\* C9 amended: an update() that begins and ends IDLE, or begins and ends
\* STOPPED, leaves every field of the current PuttData other than
\* current_speed unchanged.
C9_RestingChangesOnlyCurrentSpeed ==
  [][(Called /\ ps.current.state \in {IDLE, STOPPED}
        /\ ps'.current.state = ps.current.state)
       => [ps'.current EXCEPT !.current_speed = ps.current.current_speed]
            = ps.current]_vars

\* The putt is STOPPED and has since seen a valid ball at another speed and
\* another place than those it stopped with.
C9_Witness ==
  /\ ps.current.state = STOPPED
  /\ ps.has_prev
  /\ arg.ball.valid
  /\ ps.current.current_speed # ps.history[Len(ps.history)].current_speed
  /\ <<ps.prev_x, ps.prev_y>> # <<ps.current.final_x, ps.current.final_y>>

\* C10 as stated: from one update() to the next within a putt (any call
\* that does not begin a new putt) break_distance never decreases, and it
\* is the largest lateral deviation from the launch line seen so far: on
\* every valid-ball update() of a putt in motion it becomes the larger of
\* its old value and the ball's deviation, whether or not the update
\* before it had a valid ball.
C10_BreakIsRunningMax ==
  [][(Called /\ ~Enters)
       => /\ ps'.current.break_distance >= ps.current.break_distance
          /\ (arg'.ball.valid /\ ps.current.state = IN_MOTION)
               => ps'.current.break_distance
                    = Max(ps.current.break_distance,
                          Cross(ps, arg'.ball))]_vars

\* C11: in every reachable state the k-th record of history has
\* putt_number = k, and the putt_number of the current PuttData never
\* decreases from one update() to the next.
C11_PuttNumbers ==
  /\ [](\A k \in 1..Len(ps.history) : ps.history[k].putt_number = k)
  /\ [][ps'.current.putt_number >= ps.current.putt_number]_vars

\* Two putts are in history and the third is in motion.
C11_Witness ==
  /\ Len(ps.history) = 2
  /\ ps.current.state = IN_MOTION
  /\ ps.current.putt_number = 3

RECURSIVE SumUpTo(_, _, _)
\* The sum of field f over the first k records of h.
SumUpTo(h, f, k) == IF k = 0 THEN 0 ELSE SumUpTo(h, f, k - 1) + h[k][f]

\* The fraction q is the quotient a / n.
IsQuotient(q, a, n) == q[2] > 0 /\ q[1] * n = q[2] * a

\* C12: session() on any reachable state returns total_putts =
\* len(history); with no record all four averages are 0, otherwise each is
\* the sum of its field over the history records divided by total_putts;
\* the current PuttData is no part of it.
C12_SessionAverages ==
  LET s == session(ps)
      n == Len(ps.history)
  IN /\ s.total_putts = n
     /\ n = 0 => /\ s.avg_launch_speed = <<0, 1>>
                 /\ s.avg_distance = <<0, 1>>
                 /\ s.avg_break = <<0, 1>>
                 /\ s.avg_time = <<0, 1>>
     /\ n > 0 =>
          /\ IsQuotient(s.avg_launch_speed,
                        SumUpTo(ps.history, "launch_speed", n), n)
          /\ IsQuotient(s.avg_distance,
                        SumUpTo(ps.history, "total_distance", n), n)
          /\ IsQuotient(s.avg_break,
                        SumUpTo(ps.history, "break_distance", n), n)
          /\ IsQuotient(s.avg_time,
                        SumUpTo(ps.history, "time_in_motion", n), n)

\* Two putts launched at 6 and 8 are in history (average 7) with times
\* that do not average to a whole number, and a third putt, launched at 8,
\* is in motion.
C12_Witness ==
  /\ Len(ps.history) = 2
  /\ ps.history[1].launch_speed = 6
  /\ ps.history[2].launch_speed = 8
  /\ session(ps).avg_launch_speed = <<7, 1>>
  /\ session(ps).avg_time[2] = 2
  /\ ps.current.state = IN_MOTION
  /\ ps.current.launch_speed = 8

\* C13: the PuttStats lock is held only inside update(), current(),
\* history() and session(): whoever owns it is between the lock and the
\* unlock of one of these operations, so no thread owns it while the
\* telemetry datagram is formatted and sent or while an HTTP response is
\* serialized and written.
C13_LockOnlyInsideOperations ==
  /\ mu = Updater =>
       pcU \in {"check", "accum", "switch", "begin", "finalize", "unlock",
                "cur_copy", "cur_unlock", "ov_copy", "ov_unlock"}
  /\ \A r \in Readers : mu = r => pcR[r] \in {"copy", "unlock"}
  /\ pcU \in {"send", "key"} => mu # Updater
  /\ \A r \in Readers : pcR[r] = "respond" => mu # r

\* The orchestration thread is sending the datagram and a reader is
\* writing its response while the other reader owns the lock inside an
\* operation.
C13_Witness ==
  /\ pcU = "send"
  /\ pcR["r1"] = "respond"
  /\ mu = "r2" /\ pcR["r2"] = "copy"

\* C14: under fair scheduling every call of update(), current(),
\* history() and session() returns: the orchestration thread that has
\* called update() gets through it and through the current() that follows
\* and ends its iteration, and a handler that has called its operation
\* gets to write its response.  (A thread can only get there by releasing
\* the lock it took.)
C14_EveryCallReturns ==
  /\ (pcU = "lock") ~> (pcU = "idle")
  /\ [](\A r \in Readers : (pcR[r] = "lock") => <>(pcR[r] = "respond"))

\* update() is leaving through its early return on an invalid ball, lock
\* still held, while one reader waits for the lock to run session() on an
\* empty history and the other waits as well.
C14_Witness ==
  /\ pcU = "unlock" /\ ~arg.ball.valid /\ mu = Updater
  /\ pcR["r1"] = "lock" /\ opR["r1"] = "session" /\ Len(ps.history) = 0
  /\ pcR["r2"] = "lock"

\* A Tracker::update call, the two tracks, and whether the frame of the
\* latest call has a detection of a class.
TCalled == tcalls' = tcalls + 1
Tracks == {"ball_", "putter_"}
HasDetection(dets, c) == \E i \in 1..Len(dets) : dets[i].class_id = c

\* C19: a valid track always has frames_since_seen <= max_lost; an update
\* with no detection of its class keeps it valid (coasting) and counts the
\* frame while the count stays within max_lost, and when the count passes
\* max_lost (the call max_lost+1 after the track was seen) makes it
\* invalid with velocity (0,0), position and confidence exactly as before
\* the call; an invalid track stays invalid on every such update.
C19_LostAfterMaxLost ==
  /\ [](\A f \in Tracks :
         trk[f].valid => trk[f].frames_since_seen <= trk.max_lost_)
  /\ [][TCalled =>
         \A f \in Tracks :
           LET o == trk[f]
               n == trk'[f]
           IN ~HasDetection(targ'.dets, o.class_id) =>
                /\ n.frames_since_seen = o.frames_since_seen + 1
                /\ (o.valid /\ o.frames_since_seen < trk.max_lost_)
                     => n.valid
                /\ (o.valid /\ o.frames_since_seen = trk.max_lost_)
                     => /\ ~n.valid
                        /\ n.vx = RZero /\ n.vy = RZero
                        /\ n.x = o.x /\ n.y = o.y
                        /\ n.confidence = o.confidence
                /\ ~o.valid => ~n.valid]_vars

\* The ball track has just been declared lost: it was valid and moving at
\* the threshold count before the call, and is now invalid at the same
\* place with no velocity.
C19_Witness ==
  /\ tprev.ball_.valid /\ tprev.ball_.frames_since_seen = trk.max_lost_
  /\ tprev.ball_.vx # RZero
  /\ ~HasDetection(targ.dets, 0)
  /\ ~trk.ball_.valid /\ trk.ball_.vx = RZero
  /\ trk.ball_.x = tprev.ball_.x /\ trk.ball_.x # RZero
  /\ trk.ball_.frames_since_seen = trk.max_lost_ + 1

\* The detections of class c a frame offers for selection: those of
\* positive confidence that no other of the class exceeds.
Selectable(dets, c) ==
  {d \in {dets[i] : i \in 1..Len(dets)} :
     /\ d.class_id = c /\ d.confidence > 0
     /\ \A j \in 1..Len(dets) :
          dets[j].class_id = c => dets[j].confidence <= d.confidence}

\* C20: an update that selects a detection for a track that is not valid
\* puts the track at the centre of the detection's box with velocity
\* (0,0), valid, frames_since_seen 0 and the detection's confidence,
\* whatever the previous position and dt.
C20_FirstDetectionSnaps ==
  [][TCalled =>
       \A f \in Tracks :
         LET o == trk[f]
             n == trk'[f]
             sel == Selectable(targ'.dets, o.class_id)
         IN (~o.valid /\ sel # {}) =>
              \E d \in sel :
                n = [class_id |-> o.class_id,
                     x |-> RNorm(d.x1 + d.x2, 2),
                     y |-> RNorm(d.y1 + d.y2, 2),
                     vx |-> RZero, vy |-> RZero,
                     confidence |-> d.confidence,
                     frames_since_seen |-> 0,
                     valid |-> TRUE]]_vars

\* The ball track, lost at another place, has snapped to the centre of the
\* more confident of two ball detections of a frame two time units after
\* the previous one.
C20_Witness ==
  /\ ~tprev.ball_.valid /\ tprev.ball_.frames_since_seen > trk.max_lost_
  /\ tprev.ball_.x # RZero
  /\ targ.dets = <<BallB, BallA>> /\ targ.dt = RInt(2)
  /\ trk.ball_.valid /\ trk.ball_.x = RZero /\ trk.ball_.vx = RZero
  /\ trk.ball_.confidence = 90

\* A frame has just been read by main.
FrameRead == nread' = nread + 1

\* C15: once the loop has been left (end of stream, or q), shutdown
\* completes: StatsApi::stop() returns, the sender is closed and main
\* returns 0.
C15_ShutdownCompletes == (mpc = "stop") ~> (mpc = "exit0")

\* C16: a frame on which inference fails calls none of Tracker::update,
\* PuttStats::update and the telemetry send, leaves the tracker and the
\* putt state as they were, and leaves main in its loop.
C16_InferenceFailureSkipsFrame ==
  [][(FrameRead /\ frame'.infer = "failed") =>
       /\ tcalls' = tcalls /\ calls' = calls /\ sends' = sends
       /\ trk' = trk /\ ps' = ps
       /\ mpc' = "loop"]_vars

\* Inference has failed on the latest frame, in the middle of a putt and
\* with a live ball track; main is in its loop with frames still to come.
C16_Witness ==
  /\ frame.infer = "failed" /\ mpc = "loop" /\ nread < MaxFrames
  /\ ps.current.state = IN_MOTION /\ trk.ball_.valid
  /\ tcalls = nread - 1

\* The loop of main: between two reads, or inside an iteration.
InLoop(pc) == pc \in {"loop", "frame"}

\* C17 as stated: the process ends abnormally only after the model failed
\* to load or the frame source failed to open, and then the server was
\* never started and no frame was read; a sender that failed to initialise
\* or a send that failed does not keep a frame from Tracker and PuttStats,
\* nor end the loop.
C17_OnlyLoadOrOpenAborts ==
  /\ [](mpc \in {"exit1", "abort"} =>
          /\ failed \in {"engine", "source"}
          /\ srv = "none" /\ ~running_
          /\ nread = 0 /\ tcalls = 0 /\ calls = 0)
  /\ [][(FrameRead /\ frame'.infer = "ok") =>
          /\ tcalls' = tcalls + 1 /\ calls' = calls + 1
          /\ mpc' = "frame"]_vars
  /\ [][sends' = sends + 1 => InLoop(mpc')]_vars
  /\ [][(InLoop(mpc) /\ ~InLoop(mpc')) =>
          /\ mpc' = "stop"
          /\ mpc = "loop" \/ frame'.key = "q"]_vars
  /\ [](mpc = "loop" /\ nread < MaxFrames => ENABLED M_FrameSkipped)

\* C17, amended: once parse_args has accepted the command line, the
\* process ends abnormally only after the model failed to load or the
\* frame source failed to open, and then the server was never started and
\* no frame was read (before that, parse_args itself ends the process on a
\* rejected command line); a sender that failed to initialise or a send
\* that failed does not keep a frame from Tracker and PuttStats, nor end
\* the loop: every frame read and inferred is passed to tracker.update and
\* putt_stats.update, a send leaves main in its loop, and the loop is left
\* only at the end of the stream or on q.
C17_OnlySetupFailuresAbort ==
  /\ [](mpc \in {"exit1", "abort"} /\ failed # "args" =>
          /\ failed \in {"engine", "source"}
          /\ srv = "none" /\ ~running_
          /\ nread = 0 /\ tcalls = 0 /\ calls = 0)
  /\ [](mpc \in {"exit1", "abort"} /\ failed = "args" =>
          /\ srv = "none" /\ ~running_
          /\ nread = 0 /\ tcalls = 0 /\ calls = 0)
  /\ [][(FrameRead /\ frame'.infer = "ok") =>
          /\ tcalls' = tcalls + 1 /\ calls' = calls + 1
          /\ mpc' = "frame"]_vars
  /\ [][sends' = sends + 1 => InLoop(mpc')]_vars
  /\ [][(InLoop(mpc) /\ ~InLoop(mpc')) =>
          /\ mpc' = "stop"
          /\ mpc = "loop" \/ frame'.key = "q"]_vars
  /\ [](mpc = "loop" /\ nread < MaxFrames => ENABLED M_FrameSkipped)

\* The sender never got its socket and the latest send failed, yet the
\* frames have reached Tracker and PuttStats: a putt is in motion and main
\* is still in its loop.
C17_Witness ==
  /\ failed = "sender" /\ ~sock_open /\ frame.sent = "failed"
  /\ mpc = "loop" /\ calls = nread /\ tcalls = nread /\ nread >= 2
  /\ sends = nread /\ pcU = "idle"
  /\ ps.current.state = IN_MOTION

\* The configurations the claim calls valid.
ValidTracker(t) ==
  /\ t.alpha_[1] > 0 /\ t.alpha_[1] <= t.alpha_[2]
  /\ t.max_lost_ >= 0
ValidPuttStats(p) == p.motion_threshold_ > 0 /\ p.stop_frames_required_ > 0

\* C18: no update() runs on a Tracker built with a smoothing factor
\* outside (0,1] or a negative max_lost, nor on a PuttStats built with a
\* zero or negative motion_threshold or stop_frames: such objects fail to
\* construct.
C18_InvalidConfigRejected ==
  /\ tcalls > 0 => ValidTracker(trk)
  /\ calls > 0 => ValidPuttStats(ps)

\* C21: frames_since_seen is never negative; after an update whose list
\* has a detection of the track's class, of whatever confidence, it is 0,
\* and after an update whose list has none it is one more than before.
C21_SeenCounter ==
  /\ [](\A f \in Tracks : trk[f].frames_since_seen >= 0)
  /\ [][TCalled =>
         \A f \in Tracks :
           trk'[f].frames_since_seen =
             IF HasDetection(targ'.dets, trk[f].class_id)
               THEN 0
               ELSE trk[f].frames_since_seen + 1]_vars

\* The detections of class c in a list, in list order.
OfClass(dets, c) ==
  LET IsOfClass(d) == d.class_id = c IN SelectSeq(dets, IsOfClass)

\* C22: on the first update of a fresh Tracker a track becomes valid
\* exactly when the list has a detection of its class with positive
\* confidence, and then it sits at the centre of, and has the confidence
\* of, the detection of its class that no other of the class exceeds and
\* that every earlier one of the class is below; the outcome for a class
\* is the same when every detection of another class id is removed from
\* the list.
C22_BestDetectionPerClass ==
  [][TCalled =>
       \A f \in Tracks :
         LET c == trk[f].class_id
             n == trk'[f]
             dets == targ'.dets
             I == {i \in 1..Len(dets) : dets[i].class_id = c}
         IN /\ n.valid <=> \E i \in I : dets[i].confidence > 0
            /\ n.valid =>
                 \E i \in I :
                   /\ \A j \in I : dets[j].confidence <= dets[i].confidence
                   /\ \A j \in I :
                        j < i => dets[j].confidence < dets[i].confidence
                   /\ n.x = RNorm(dets[i].x1 + dets[i].x2, 2)
                   /\ n.y = RNorm(dets[i].y1 + dets[i].y2, 2)
                   /\ n.confidence = dets[i].confidence
            /\ n = tracker_update(trk, OfClass(dets, c), targ'.dt)[f]]_vars

\* The ball track took the first of two equally confident ball boxes that
\* follow a putter box in the list, and the putter track took that one.
C22_Witness ==
  /\ targ.dets = <<PutterC, BallA, BallB90>>
  /\ trk.ball_.valid /\ trk.ball_.x = RZero /\ trk.ball_.confidence = 90
  /\ trk.putter_.valid /\ trk.putter_.x = RInt(8)

\* C23: an update with a detection for a valid track and dt at or below
\* 1e-6 moves the position by the EMA and leaves the velocity exactly as
\* it was.
C23_NoVelocityEstimateAtSmallDt ==
  [][TCalled =>
       \A f \in Tracks :
         LET o == trk[f]
             n == trk'[f]
             sel == Selectable(targ'.dets, o.class_id)
         IN (o.valid /\ sel # {} /\ ~RLess(Epsilon, targ'.dt)) =>
              /\ n.vx = o.vx /\ n.vy = o.vy
              /\ \E d \in sel :
                   /\ n.x = RAdd(RMul(trk.alpha_, RNorm(d.x1 + d.x2, 2)),
                                  RMul(RSub(ROne, trk.alpha_), o.x))
                   /\ n.y = RAdd(RMul(trk.alpha_, RNorm(d.y1 + d.y2, 2)),
                                  RMul(RSub(ROne, trk.alpha_), o.y))]_vars

\* A moving ball track has been updated with a detection exactly one
\* epsilon after the previous frame: it has moved and kept its velocity.
C23_Witness ==
  /\ tprev.ball_.valid /\ tprev.ball_.vx # RZero
  /\ targ.dt = Epsilon /\ targ.dets = <<BallA>>
  /\ trk.ball_.vx = tprev.ball_.vx
  /\ trk.ball_.x # tprev.ball_.x

\* The fields of a PuttData that describe the putt, without its state and
\* current_speed.
PuttFields ==
  {"putt_number", "launch_speed", "peak_speed", "total_distance",
   "break_distance", "time_in_motion", "start_x", "start_y", "final_x",
   "final_y"}

\* C24: an update() that begins and ends STOPPED changes none of
\* putt_number, launch_speed, peak_speed, total_distance, break_distance,
\* time_in_motion, start and final of the current PuttData, wherever the
\* ball is.
C24_StoppedPuttIsFrozen ==
  [][(Called /\ ps.current.state = STOPPED /\ ps'.current.state = STOPPED)
       => \A k \in PuttFields : ps'.current[k] = ps.current[k]]_vars

\* The putt is STOPPED and the latest update() brought a valid ball at
\* exactly the threshold speed, away from the putt's final position, right
\* after another valid ball.
C24_Witness ==
  /\ ps.current.state = STOPPED
  /\ arg.ball.valid /\ Speed(arg.ball) = motion_threshold
  /\ <<arg.ball.x, arg.ball.y>>
       # <<ps.current.final_x, ps.current.final_y>>
  /\ ps.current.total_distance = ps.history[Len(ps.history)].total_distance
  /\ ps.current.current_speed
       # ps.history[Len(ps.history)].current_speed

\* C26: IDLE implies an empty history and putt_number 0; IN_MOTION implies
\* putt_number = Len(history) + 1; STOPPED implies putt_number =
\* Len(history) and a last history record that agrees with the current
\* PuttData on every field of the putt.
C26_StateAndHistoryAgree ==
  /\ ps.current.state = IDLE =>
       ps.history = <<>> /\ ps.current.putt_number = 0
  /\ ps.current.state = IN_MOTION =>
       ps.current.putt_number = Len(ps.history) + 1
  /\ ps.current.state = STOPPED =>
       /\ ps.current.putt_number = Len(ps.history)
       /\ Len(ps.history) > 0
       /\ \A k \in PuttFields :
            ps.history[Len(ps.history)][k] = ps.current[k]

\* The second putt has stopped after covering ground, and a later frame
\* has changed the current speed since.
C26_Witness ==
  /\ ps.current.state = STOPPED /\ Len(ps.history) = 2
  /\ ps.current.total_distance > 0
  /\ ps.current.current_speed # ps.history[2].current_speed

\* C27: an update() with an invalid ball leaves the below-threshold
\* counter and the state as they are, so while the putt is IN_MOTION the
\* counter is the number of slow valid-ball updates since the last valid
\* one that was not slow, invalid ones between them not counting, and the
\* putt stops on the update that brings that number to stop_frames.
C27_InvalidFramesKeepCount ==
  /\ [][(Called /\ ~arg'.ball.valid) =>
          /\ ps'.frames_below_threshold = ps.frames_below_threshold
          /\ ps'.current.state = ps.current.state]_vars
  /\ [](ps.current.state = IN_MOTION =>
          ps.frames_below_threshold = slow_run)
  /\ [][(Called /\ Stops) => slow_run' = stop_frames_required]_vars

\* The first putt has just stopped on its stop_frames-th slow frame, one
\* invalid-ball update having come between the slow frames; the record
\* appended carries a final position that is not where the ball was on the
\* stopping frame.
C27_Witness ==
  /\ ps.current.state = STOPPED /\ Len(ps.history) = 1
  /\ calls = stop_frames_required + 2
  /\ slow_run = stop_frames_required
  /\ arg.ball.valid /\ Speed(arg.ball) < motion_threshold
  /\ <<ps.history[1].final_x, ps.history[1].final_y>>
       # <<arg.ball.x, arg.ball.y>>

\* C28: while the putt is IN_MOTION, peak_speed >= current_speed.
C28_PeakAtLeastCurrent ==
  ps.current.state = IN_MOTION =>
    ps.current.peak_speed >= ps.current.current_speed

\* C29: an update() on a putt that does not begin a new one leaves
\* launch_speed, start and putt_number as they are and lowers none of
\* total_distance, peak_speed and time_in_motion.
C29_PuttFieldsWithinAPutt ==
  [][(Called /\ ps.current.state # IDLE /\ ~Enters) =>
       /\ ps'.current.launch_speed = ps.current.launch_speed
       /\ ps'.current.start_x = ps.current.start_x
       /\ ps'.current.start_y = ps.current.start_y
       /\ ps'.current.putt_number = ps.current.putt_number
       /\ ps'.current.total_distance >= ps.current.total_distance
       /\ ps'.current.peak_speed >= ps.current.peak_speed
       /\ ps'.current.time_in_motion >= ps.current.time_in_motion]_vars

\* A putt in motion has covered ground, has peaked above its launch speed
\* and is now slower than its peak.
C29_Witness ==
  /\ ps.current.state = IN_MOTION
  /\ ps.current.total_distance > 0 /\ ps.current.time_in_motion > 1
  /\ ps.current.peak_speed > ps.current.launch_speed
  /\ ps.current.current_speed < ps.current.peak_speed
  /\ <<ps.current.final_x, ps.current.final_y>>
       # <<ps.current.start_x, ps.current.start_y>>

\* v lies between a and b, ends included.
Between32(a, v, b) ==
  \/ Leq32(a, v) /\ Leq32(v, b)
  \/ Leq32(b, v) /\ Leq32(v, a)

\* C25: an update of a valid track with a detection leaves the position,
\* on each axis, between the position before and the centre of the
\* detection (no farther from the centre than before, and not beyond it),
\* for every smoothing factor in (0,1]; with alpha = 1 the position is the
\* centre.
C25_EmaMonotone ==
  [][(fcalls' = fcalls + 1 /\ ftrk.valid) =>
       /\ Between32(ftrk.x, ftrk'.x, cx32(fdet'))
       /\ Between32(ftrk.y, ftrk'.y, cy32(fdet'))
       /\ ftrk.alpha_ = One32 =>
            ftrk'.x = cx32(fdet') /\ ftrk'.y = cy32(fdet')]_vars

\* h2 is h1 with zero or more records appended.
Extends(h2, h1) ==
  Len(h1) <= Len(h2) /\ SubSeq(h2, 1, Len(h1)) = h1

\* C30: what one reader obtains while update() runs beside it: a
\* history() result extends the previous history() result, a session()
\* result has total_putts no smaller than the previous one, and a current()
\* result has a putt_number no smaller than the length of the latest
\* history() result.
C30_ReaderSeesProgress ==
  [][(pcR[Reader] = "copy" /\ pcR'[Reader] = "unlock") =>
       LET val == ret'[Reader] IN
       /\ opR[Reader] = "history" => Extends(val.history, got.history)
       /\ opR[Reader] = "session" =>
            val.session.total_putts >= got.total_putts
       /\ opR[Reader] = "current" =>
            val.current.putt_number >= Len(got.history)]_vars

\* The reader got a history of one putt, then one of two, then a session
\* of two putts, and now has a current() result of the second putt.
C30_Witness ==
  /\ pcR[Reader] = "respond" /\ opR[Reader] = "current"
  /\ Len(got.earlier) = 1 /\ Len(got.history) = 2
  /\ got.history[1] = got.earlier[1]
  /\ got.total_putts = 2
  /\ ret[Reader].current.putt_number = 2

\* C31: a track that is not valid has velocity (0,0), the ball's and the
\* putter's, whatever updates came before.
C31_InvalidTrackAtRest ==
  \A f \in Tracks :
    ~trk[f].valid => trk[f].vx = RZero /\ trk[f].vy = RZero

\* The ball track was coasting with a velocity and the latest update, one
\* more without a ball, has made it invalid.
C31_Witness ==
  /\ tprev.ball_.valid /\ tprev.ball_.vx # RZero
  /\ ~HasDetection(targ.dets, 0)
  /\ ~trk.ball_.valid /\ trk.ball_.frames_since_seen = max_lost + 1

\* C32: in a Tracker built with max_lost >= 0, a valid track has
\* 0 <= frames_since_seen <= max_lost.
C32_ValidTrackSeenRecently ==
  \A f \in Tracks :
    (trk.max_lost_ >= 0 /\ trk[f].valid) =>
      /\ trk[f].frames_since_seen >= 0
      /\ trk[f].frames_since_seen <= trk.max_lost_

\* A Tracker built with max_lost 1 whose ball track, unseen on the latest
\* frame, is still valid with the count at max_lost.
C32_Witness ==
  /\ cpc = "built" /\ trk.max_lost_ = 1
  /\ tprev.ball_.valid /\ ~HasDetection(targ.dets, 0)
  /\ trk.ball_.valid /\ trk.ball_.frames_since_seen = 1

\* The ball track has turned from invalid to valid on the latest frame:
\* a first sighting, or a reacquisition after a loss.
Sighted == tcalls > 0 /\ ~tprev.ball_.valid /\ trk.ball_.valid

\* C33: when PuttStats is fed by the Tracker as in main's loop, with a
\* motion_threshold of 0 or more, the frame on which the ball track turns
\* from invalid to valid (first sighting, or reacquisition after a loss)
\* finds the track's velocity (0,0) and calls update() with that ball,
\* and no step of that iteration, from tracker.update through every
\* statement of update() to the end of the iteration, whatever a handler
\* does in between, begins a putt: the putt number stays, a putt that is
\* Idle stays Idle and one that is Stopped stays Stopped.
C33_NoPuttOnSighting ==
  [][(Sighted' /\ ps.motion_threshold_ >= 0) =>
       /\ trk'.ball_.vx = RZero /\ trk'.ball_.vy = RZero
       /\ arg'.ball = BallOf(trk'.ball_)
       /\ arg'.ball.valid /\ Speed(arg'.ball) = 0
       /\ calls' = tcalls'
       /\ ps'.current.putt_number = ps.current.putt_number
       /\ ps.current.state # IN_MOTION
            => ps'.current.state = ps.current.state]_vars

\* A putt has been made and has stopped, the ball track was then lost
\* after frames without a ball, and the ball has been found again on the
\* latest frame, away from where it was; update() has run on that ball to
\* its end and so has the rest of the iteration: the putt still is the
\* stopped putt 1.
C33_Witness ==
  /\ tcalls = MaxFeedFrames /\ calls = MaxFeedFrames
  /\ Sighted /\ tprev.ball_.frames_since_seen > max_lost
  /\ trk.ball_.x # tprev.ball_.x
  /\ arg.ball = BallOf(trk.ball_)
  /\ pcU = "idle" /\ committed = ps
  /\ ps.has_prev /\ ps.prev_x = arg.ball.x
  /\ ps.motion_threshold_ = motion_threshold * Scale
  /\ ps.current.state = STOPPED /\ ps.current.putt_number = 1
  /\ Len(ps.history) = 1

====
